---- MODULE Spec2Model ----
(***************************************************************************)
(* A model of the MusicKitKat SDK core: the errors package (status-code    *)
(* classification and the type-check predicates), the client package (the  *)
(* HTTP transport: request signing, Do, error-body decoding), the          *)
(* top-level musickitkat.Client, and the auth package (the in-memory token *)
(* cache and the UserTokenManager).                                        *)
(*                                                                         *)
(* Go strings that the code concatenates or inspects are sequences of      *)
(* string pieces: "" is << >>, "Bearer " + t is <<"Bearer ">> \o t.        *)
(***************************************************************************)
EXTENDS Integers, Sequences, FiniteSets, TLC

VARIABLES
    err,        \* errors: the error value handed to the errors package
    errOut,     \* errors: the outcome of the last call made on err
    sdk,        \* musickitkat.Client: its exported token fields and how it was built
    cl,         \* client.Client: the transport's configuration
    req,        \* client: the last request NewRequest built
    doOut,      \* client: the outcome of the last Do
    wrapOut,    \* client: the outcome of the last Get, Post, Put or Delete
    tokens,     \* auth: MemoryTokenCache.tokens
    now,        \* auth: the clock, in seconds
    last,       \* auth: the trace of the last cache or manager call
    authStyle,  \* auth: oauth2 has found out how the token endpoint takes the client's credentials
    pending,    \* auth: the GetUserToken call waiting on the token endpoint
    inflight,   \* auth: the RefreshToken and ExchangeCode calls waiting on the token endpoint
    lastSaved,  \* auth: per userID, the record most recently passed to Save
    clock,      \* auth: the wall clock the developer token reads, in ticks
    devToken,   \* auth: the outcome of the last developer-token constructor
    isExpiredOut, \* auth: the outcome of the last IsExpired call on devToken
    storefront, \* services: SearchService.storefront
    defaultStorefront, \* services: the storefront last given to SetStorefront, "us" at first
    searchOut,   \* services: the last Search or SearchHints call and the path it requested
    song, \* models: the song the last call looked at
    previewOut, \* models, services: the outcome of the last GetPreviewURL or GetSongPreviewURL
    authURL, \* auth: the URL the last GetAuthURL call returned
    codeOut, \* auth: the outcome of the last ExchangeCode call
    userTokenOut, \* auth: the outcome of the last RequestUserToken call
    gor, \* auth: each goroutine's position in its cache or manager call, and its last result
    fatal, \* auth: the Go runtime stopped the program on a concurrent map access
    endpointLog \* auth: the refresh tokens the token endpoint has been sent, in order

errVars    == <<err, errOut>>
clientVars == <<sdk, cl, req, doOut, wrapOut>>
authVars   == <<tokens, now, last, lastSaved, authStyle, pending, inflight>>
devVars    == <<clock, devToken, isExpiredOut>>
searchVars == <<storefront, defaultStorefront, searchOut>>
songVars == <<song, previewOut>>
managerVars == <<authURL, codeOut, userTokenOut>>
concVars == <<gor, fatal, endpointLog>>
vars       == <<err, errOut, sdk, cl, req, doOut, wrapOut, tokens, now, last, lastSaved,
                authStyle, pending, inflight,
                clock, devToken, isExpiredOut, storefront, defaultStorefront, searchOut,
                song, previewOut,
                authURL, codeOut, userTokenOut,
                gor, fatal, endpointLog>>

----------------------------------------------------------------------------
(* Bounds                                                                  *)

\* Status codes range over -NegStatus .. MaxStatus.
NegStatus == 1
MaxStatus == 601
\* An APIError carries at most MaxSubErrors sub-errors.
MaxSubErrors == 2

StatusCodes == (0 - NegStatus)..MaxStatus

----------------------------------------------------------------------------
(* Package errors                                                          *)

ErrorTypeAuthentication == "authentication"
ErrorTypeInvalidRequest == "invalid_request"
ErrorTypeRateLimit      == "rate_limit"
ErrorTypeServer         == "server"
ErrorTypeUnknown        == "unknown"

\* The sub-errors of an error body: (title, detail) pairs.
SubErrorSet == { [Title |-> "Forbidden", Detail |-> "no access"],
                 [Title |-> "Bad", Detail |-> "request"] }

RECURSIVE SeqsUpTo(_, _)
SeqsUpTo(S, n) ==
    IF n = 0 THEN { <<>> }
    ELSE LET shorter == SeqsUpTo(S, n - 1)
         IN  shorter \cup { Append(s, x) : s \in { t \in shorter : Len(t) = n - 1 }, x \in S }

\* An APIError value: its status code and its decoded sub-errors.  The Type
\* and Message fields are never written by the code and are left out.
APIError(status, subErrors) == [StatusCode |-> status, Errors |-> subErrors]

APIErrors == { APIError(s, es) : s \in StatusCodes, es \in SeqsUpTo(SubErrorSet, MaxSubErrors) }

\* A Go error value: its dynamic type and, for a *APIError, the pointer.
\*   "nil"      the nil error
\*   "plain"    an error that is not a *APIError (errors.New, fmt.Errorf)
\*   "wrapped"  fmt.Errorf("...: %w", apiErr): a *fmt.wrapError around a *APIError
\*   "APIError" a *APIError; isNilPtr says whether the pointer is nil
\* A "plain" or "wrapped" error carries the message fmt.Errorf formatted.
NoAPIError == APIError(0, <<>>)
NilError         == [dyn |-> "nil", isNilPtr |-> FALSE, api |-> NoAPIError, msg |-> <<>>]
PlainError(m)    == [dyn |-> "plain", isNilPtr |-> FALSE, api |-> NoAPIError, msg |-> m]
NilAPIErrorPtr   == [dyn |-> "APIError", isNilPtr |-> TRUE, api |-> NoAPIError, msg |-> <<>>]
APIErrorValue(e) == [dyn |-> "APIError", isNilPtr |-> FALSE, api |-> e, msg |-> <<>>]
WrappedError(m, e) == [dyn |-> "wrapped", isNilPtr |-> FALSE, api |-> e, msg |-> m]

ErrorValues ==
    { NilError, PlainError(<<"boom">>), NilAPIErrorPtr }
        \cup { APIErrorValue(e) : e \in APIErrors }
        \cup { WrappedError(<<"call failed: ">>, e) : e \in { a \in APIErrors : a.Errors = <<>> } }

\* GetType with the 4xx range starting after 400.
GetTypeExclusive400(e) ==
    IF e.StatusCode = 401 \/ e.StatusCode = 403 THEN ErrorTypeAuthentication
    ELSE IF e.StatusCode > 400 /\ e.StatusCode < 500 THEN ErrorTypeInvalidRequest
    ELSE IF e.StatusCode = 429 THEN ErrorTypeRateLimit
    ELSE IF e.StatusCode >= 500 THEN ErrorTypeServer
    ELSE ErrorTypeUnknown

\* GetType with the server range starting after 500.
GetTypeExclusive500(e) ==
    IF e.StatusCode = 401 \/ e.StatusCode = 403 THEN ErrorTypeAuthentication
    ELSE IF e.StatusCode >= 400 /\ e.StatusCode < 500 THEN ErrorTypeInvalidRequest
    ELSE IF e.StatusCode = 429 THEN ErrorTypeRateLimit
    ELSE IF e.StatusCode > 500 THEN ErrorTypeServer
    ELSE ErrorTypeUnknown

\* (*APIError).GetType: the switch's cases in the order the code tests them.
GetTypeFirstMatch4xx(e) ==
    IF e.StatusCode >= 400 /\ e.StatusCode < 500 THEN ErrorTypeInvalidRequest
    ELSE IF e.StatusCode = 401 \/ e.StatusCode = 403 THEN ErrorTypeAuthentication
    ELSE IF e.StatusCode = 429 THEN ErrorTypeRateLimit
    ELSE IF e.StatusCode >= 500 THEN ErrorTypeServer
    ELSE ErrorTypeUnknown

GetType(e) ==
    IF e.StatusCode = 401 \/ e.StatusCode = 403 THEN ErrorTypeAuthentication
    ELSE IF e.StatusCode >= 400 /\ e.StatusCode < 500 THEN ErrorTypeInvalidRequest
    ELSE IF e.StatusCode = 429 THEN ErrorTypeRateLimit
    ELSE IF e.StatusCode >= 500 THEN ErrorTypeServer
    ELSE ErrorTypeUnknown

\* The outcome of a call: it returns value, or it panics.
Returned(v) == [panicked |-> FALSE, value |-> v]
Panicked    == [panicked |-> TRUE, value |-> FALSE]

\* err.(*APIError) succeeds exactly for the dynamic type *APIError, nil
\* pointer included; GetType on a nil pointer dereferences it.
IsErrorOfType(e, type) ==
    IF e.dyn = "APIError"
    THEN IF e.isNilPtr THEN Panicked ELSE Returned(GetType(e.api) = type)
    ELSE Returned(FALSE)

IsAuthenticationError(e) == IsErrorOfType(e, ErrorTypeAuthentication)
IsInvalidRequestError(e) == IsErrorOfType(e, ErrorTypeInvalidRequest)
IsRateLimitError(e)      == IsErrorOfType(e, ErrorTypeRateLimit)
IsServerError(e)         == IsErrorOfType(e, ErrorTypeServer)

RECURSIVE JoinMessages(_)
\* strings.Join(messages, "; ") over the "<title>: <detail>" entries.
JoinMessages(es) ==
    IF Len(es) = 0 THEN <<>>
    ELSE LET m == <<es[1].Title, ": ", es[1].Detail>>
         IN  IF Len(es) = 1 THEN m ELSE m \o <<"; ">> \o JoinMessages(Tail(es))

\* (*APIError).Error
Error(e) ==
    IF Len(e.Errors) = 0
    THEN <<"API error (status code: ", ToString(e.StatusCode), ")">>
    ELSE <<"API error (status code: ", ToString(e.StatusCode), "): ">> \o JoinMessages(e.Errors)

NoCall == [op |-> "none", out |-> Returned(FALSE)]

\* apiErr.GetType() on a non-nil *APIError.
GetTypeCall ==
    /\ err.dyn = "APIError" /\ ~err.isNilPtr
    /\ errOut' = [op |-> "GetType", out |-> Returned(GetType(err.api))]
    /\ UNCHANGED <<err, clientVars, authVars, devVars, searchVars, songVars, managerVars, concVars>>

\* apiErr.Error() on a non-nil *APIError.
ErrorCall ==
    /\ err.dyn = "APIError" /\ ~err.isNilPtr
    /\ errOut' = [op |-> "Error", out |-> Returned(Error(err.api))]
    /\ UNCHANGED <<err, clientVars, authVars, devVars, searchVars, songVars, managerVars, concVars>>

IsAuthenticationErrorCall ==
    /\ errOut' = [op |-> "IsAuthenticationError", out |-> IsAuthenticationError(err)]
    /\ UNCHANGED <<err, clientVars, authVars, devVars, searchVars, songVars, managerVars, concVars>>

IsInvalidRequestErrorCall ==
    /\ errOut' = [op |-> "IsInvalidRequestError", out |-> IsInvalidRequestError(err)]
    /\ UNCHANGED <<err, clientVars, authVars, devVars, searchVars, songVars, managerVars, concVars>>

IsRateLimitErrorCall ==
    /\ errOut' = [op |-> "IsRateLimitError", out |-> IsRateLimitError(err)]
    /\ UNCHANGED <<err, clientVars, authVars, devVars, searchVars, songVars, managerVars, concVars>>

IsServerErrorCall ==
    /\ errOut' = [op |-> "IsServerError", out |-> IsServerError(err)]
    /\ UNCHANGED <<err, clientVars, authVars, devVars, searchVars, songVars, managerVars, concVars>>

NextErrors ==
    \/ GetTypeCall
    \/ ErrorCall
    \/ IsAuthenticationErrorCall
    \/ IsInvalidRequestErrorCall
    \/ IsRateLimitErrorCall
    \/ IsServerErrorCall

----------------------------------------------------------------------------
(* Package client: the HTTP transport                                      *)

\* A client carries at most MaxHeaders WithHeader options.
MaxHeaders == 2
\* A response body is at most MaxBodyChunks chunks long.
MaxBodyChunks == 2

EmptyString == <<>>
DefaultUserAgent == <<"MusicKitKat/0.1.0">>
\* A base URL is held as its scheme and host followed by the segments of its
\* path; an API version is one segment.
DefaultBaseURL    == <<"https://api.music.apple.com">>
DefaultAPIVersion == <<"v1">>
ApplicationJSON  == <<"application/json">>

DevTokens  == { EmptyString, <<"devJWT">> }
UserTokens == { EmptyString, <<"userTok">> }

\* The (key, value) pairs a caller may hand to WithHeader.
StaticHeaderOptions ==
    { <<"Authorization", <<"Bearer ", "other">> >>,
      <<"authorization", <<"Basic ", "creds">> >>,
      <<"Music-User-Token", <<"otherUser">> >> }

\* textproto.CanonicalMIMEHeaderKey, which http.Header.Set and Get apply to
\* the key, on the keys of this model.
CanonicalMIMEHeaderKey(k) ==
    IF k = "authorization" THEN "Authorization"
    ELSE IF k = "music-user-token" THEN "Music-User-Token"
    ELSE k

\* http.Header.Set and http.Header.Get on a header held as a map from
\* canonical keys to values.
HeaderSet(h, k, v) ==
    [ K \in DOMAIN h \cup { CanonicalMIMEHeaderKey(k) } |->
        IF K = CanonicalMIMEHeaderKey(k) THEN v ELSE h[K] ]

HeaderGet(h, k) ==
    IF CanonicalMIMEHeaderKey(k) \in DOMAIN h THEN h[CanonicalMIMEHeaderKey(k)] ELSE EmptyString

EmptyMap == [ k \in {} |-> EmptyString ]

\* c.headers[key] = value
MapAssign(m, k, v) == [ x \in DOMAIN m \cup {k} |-> IF x = k THEN v ELSE m[x] ]

\* The ClientOptions WithHeader, WithUserAgent, WithAPIVersion and
\* WithBaseURL, each as its name and arguments.
WithHeader(key, value) == [ opt |-> "WithHeader", key |-> key, value |-> value ]
WithUserAgent(userAgent) == [ opt |-> "WithUserAgent", key |-> "", value |-> userAgent ]
WithAPIVersion(apiVersion) == [ opt |-> "WithAPIVersion", key |-> "", value |-> apiVersion ]
WithBaseURL(baseURL) == [ opt |-> "WithBaseURL", key |-> "", value |-> baseURL ]

\* option(client): what one ClientOption does to the client.
ApplyOption(c, o) ==
    IF o.opt = "WithHeader" THEN [ c EXCEPT !.headers = MapAssign(@, o.key, o.value) ]
    ELSE IF o.opt = "WithUserAgent" THEN [ c EXCEPT !.userAgent = o.value ]
    ELSE IF o.opt = "WithAPIVersion" THEN [ c EXCEPT !.apiVersion = o.value ]
    ELSE [ c EXCEPT !.baseURL = o.value ]

RECURSIVE ApplyOptions(_, _)
\* NewClient's loop over its options, in the order given.
ApplyOptions(c, opts) ==
    IF opts = <<>> THEN c
    ELSE ApplyOptions(ApplyOption(c, opts[1]), Tail(opts))

\* LogLevel
LogLevelNone  == 0
LogLevelError == 1
LogLevelInfo  == 2
LogLevelDebug == 3
LogLevels == { LogLevelNone, LogLevelError, LogLevelInfo, LogLevelDebug }

\* A *log.Logger: the one NewClient makes, writing to io.Discard; one of the
\* caller's, writing somewhere; a nil pointer.
Loggers == { "discard", "custom", "nil" }

\* client.NewClient(options...): the fields the requests depend on.
ClientNewClient(opts) ==
    ApplyOptions([ baseURL        |-> DefaultBaseURL,
                   apiVersion     |-> DefaultAPIVersion,
                   userAgent      |-> DefaultUserAgent,
                   headers        |-> EmptyMap,
                   developerToken |-> EmptyString,
                   userToken      |-> EmptyString,
                   logger         |-> "discard",
                   logLevel       |-> LogLevelNone ],
                 opts)

\* Client.log(level, ...): c.logger.Printf runs when c.logLevel >= level, and
\* Printf on a nil *log.Logger dereferences it.  LogPanics says whether a
\* path whose least log level is level panics.
LogPanics(c, level) == c.logger = "nil" /\ c.logLevel >= level

WithHeaderOptionSeqs ==
    SeqsUpTo({ WithHeader(p[1], p[2]) : p \in StaticHeaderOptions }, MaxHeaders)

\* The option lists that set the user agent, the API version or the base
\* URL: the user agent alone, the API version alone, and all three with the
\* user agent given twice (the later wins).  The base URL given has a path.
OtherOptionSeqs ==
    { << WithUserAgent(<<"myapp/2.0">>) >>,
      << WithAPIVersion(<<"v2">>) >>,
      << WithBaseURL(<<"https://proxy.test", "me">>), WithAPIVersion(<<"v2">>),
         WithUserAgent(<<"myapp/2.0">>), WithUserAgent(<<"other/1.0">>) >> }

ClientOptionSeqs == WithHeaderOptionSeqs \cup OtherOptionSeqs

\* The request paths the services build, as their segments.
Paths == { <<"catalog", "us", "songs">>, <<"me", "library", "songs">> }
\* The methods callers hand to NewRequest themselves.
Methods == { "GET", "POST" }
\* The body handed to NewRequest: none, a value json can encode, one it cannot.
RequestBodies == { "nil", "encodable", "unencodable" }
\* The bodies a Post or Put may be given.
PostBodies == { "encodable", "unencodable" }

\* buildURL: "<baseURL>/<apiVersion>/<path>", as the scheme and host followed
\* by the segments of the URL's path.
buildURL(c, path) == c.baseURL \o c.apiVersion \o path

\* strings.Contains(urlPath, "/" + seg + "/"): seg is a segment of the
\* path that another segment follows.
ContainsSegment(urlPath, seg) ==
    \E i \in 1..(Len(urlPath) - 1) : urlPath[i] = seg

RECURSIVE SetAll(_, _, _)
\* for key, value := range c.headers { req.Header.Set(key, value) }, in the
\* iteration order keys.
SetAll(h, m, keys) ==
    IF keys = <<>> THEN h
    ELSE SetAll(HeaderSet(h, keys[1], m[keys[1]]), m, Tail(keys))

\* The orders in which range may visit the keys of a map.
RECURSIVE Orders(_)
Orders(S) ==
    IF S = {} THEN { <<>> }
    ELSE UNION { { <<x>> \o o : o \in Orders(S \ {x}) } : x \in S }

\* NewRequest's default headers, then its authentication headers.
DefaultAndAuthHeaders(c) ==
    LET h0 == HeaderSet(HeaderSet(HeaderSet(EmptyMap,
                  "User-Agent", c.userAgent),
                  "Content-Type", ApplicationJSON),
                  "Accept", ApplicationJSON)
        h1 == IF c.developerToken # EmptyString
              THEN HeaderSet(h0, "Authorization", <<"Bearer ">> \o c.developerToken)
              ELSE h0
    IN  IF c.userToken # EmptyString
        THEN HeaderSet(h1, "Music-User-Token", c.userToken)
        ELSE h1

\* The headers of the request NewRequest returns: the default headers, the
\* authentication headers, then c.headers in the order range visits them.
RequestHeader(c, order) == SetAll(DefaultAndAuthHeaders(c), c.headers, order)

\* A *http.Request: its method, the host and the path of its URL, its header.
NoRequest ==
    [ state |-> "none", method |-> "", host |-> "", path |-> <<>>, header |-> EmptyMap ]

\* Client.NewRequest: an error when the body cannot be encoded, else the
\* request with its headers.  It logs at LogLevelInfo on entry and at
\* LogLevelError when the encoding fails.
NewRequest(c, method, path, body, order) ==
    IF LogPanics(c, IF body = "unencodable" THEN LogLevelError ELSE LogLevelInfo)
    THEN [ NoRequest EXCEPT !.state = "panicked" ]
    ELSE IF body = "unencodable"
    THEN [ NoRequest EXCEPT !.state = "error" ]
    ELSE [ state  |-> "built",
           method |-> method,
           host   |-> Head(buildURL(c, path)),
           path   |-> Tail(buildURL(c, path)),
           header |-> RequestHeader(c, order) ]

\* The status codes a response may carry.
DoStatuses == { 200, 204, 302, 400, 401, 403, 429, 500 }

\* A response body is a sequence of chunks: whitespace, or one of these
\* contents.
WS == " "
ErrorsJSON == "{\"errors\":[{\"title\":\"Forbidden\",\"detail\":\"no access\"}]}"
Contents == { "oops", "{", "{}", ErrorsJSON }
Bodies == SeqsUpTo({ WS } \cup Contents, MaxBodyChunks)

RECURSIVE TrimLeft(_)
TrimLeft(b) == IF b # <<>> /\ Head(b) = WS THEN TrimLeft(Tail(b)) ELSE b

RECURSIVE TrimRight(_)
TrimRight(b) ==
    IF b # <<>> /\ b[Len(b)] = WS THEN TrimRight(SubSeq(b, 1, Len(b) - 1)) ELSE b

\* bytes.TrimSpace
TrimSpace(b) == TrimRight(TrimLeft(b))

\* trimmed[0] == '{' || trimmed[0] == '[' on a non-empty trimmed body.
LooksLikeJSON(trimmed) == trimmed[1] \in { "{", "{}", ErrorsJSON }

\* json.Unmarshal(body, &apiErr): whether it succeeds, and the sub-errors
\* it decodes.  It succeeds on one JSON object, whitespace around it
\* allowed; an array, a truncated object and trailing content fail.
UnmarshalOK(b) == Len(TrimSpace(b)) = 1 /\ TrimSpace(b)[1] \in { "{}", ErrorsJSON }

UnmarshalErrors(b) ==
    IF TrimSpace(b)[1] = ErrorsJSON
    THEN << [Title |-> "Forbidden", Detail |-> "no access"] >>
    ELSE <<>>

\* len() of a chunk and of a body, in bytes.
ByteLen(chunk) ==
    IF chunk = "oops" THEN 4
    ELSE IF chunk = "{}" THEN 2
    ELSE IF chunk = ErrorsJSON THEN 55
    ELSE 1

RECURSIVE BodyLen(_)
BodyLen(b) == IF b = <<>> THEN 0 ELSE ByteLen(Head(b)) + BodyLen(Tail(b))

\* The preview of a body that the diagnostics quote is cut at this length.
SampleLimit == 100

RECURSIVE FirstBytes(_, _)
\* b[:n]; a chunk cut short is named by the chunk and the bytes kept.
FirstBytes(b, n) ==
    IF b = <<>> \/ n = 0 THEN <<>>
    ELSE IF ByteLen(Head(b)) <= n
    THEN <<Head(b)>> \o FirstBytes(Tail(b), n - ByteLen(Head(b)))
    ELSE << ToString(<<Head(b), n>>) >>

\* contentSample: the body, cut to SampleLimit bytes and "..." when longer.
ContentSample(b) ==
    IF BodyLen(b) > SampleLimit THEN FirstBytes(b, SampleLimit) \o <<"...">> ELSE b

\* What the server (or the network) answers to one attempt.
Responses ==
    { [ fails |-> FALSE, status |-> s, body |-> b, readFails |-> FALSE ] :
          s \in DoStatuses, b \in Bodies }
    \cup { [ fails |-> FALSE, status |-> s, body |-> <<>>, readFails |-> TRUE ] :
          s \in { 200, 500 } }
    \cup { [ fails |-> TRUE, status |-> 0, body |-> <<>>, readFails |-> FALSE ] }

\* parseErrorResponse trying json.Unmarshal before it looks at the body.
parseErrorResponseUnmarshalFirst(resp) ==
    LET status == ToString(resp.status)
    IN
    IF resp.readFails
    THEN [ apiErr |-> NilError,
           err    |-> PlainError(<<"failed to read error response body: ">>) ]
    ELSE IF ~UnmarshalOK(resp.body)
    THEN [ apiErr |-> PlainError(<<"API error (status ", status, "): ">>
                                 \o ContentSample(resp.body)),
           err    |-> NilError ]
    ELSE [ apiErr |-> APIErrorValue(APIError(resp.status, UnmarshalErrors(resp.body))),
           err    |-> NilError ]

\* Client.parseErrorResponse: the pair (error, error) it returns; the first
\* is the error Do hands on, a *APIError only when the body unmarshals.
parseErrorResponse(resp) ==
    LET status == ToString(resp.status)
    IN
    IF resp.readFails
    THEN [ apiErr |-> NilError,
           err    |-> PlainError(<<"failed to read error response body: ">>) ]
    ELSE IF Len(resp.body) = 0
    THEN [ apiErr |-> PlainError(<<"API error (status ", status, "): empty response body">>),
           err    |-> NilError ]
    ELSE IF Len(TrimSpace(resp.body)) = 0
    THEN [ apiErr |-> PlainError(<<"API error (status ", status,
                                   "): whitespace-only response body">>),
           err    |-> NilError ]
    ELSE IF ~LooksLikeJSON(TrimSpace(resp.body))
    THEN [ apiErr |-> PlainError(<<"API error (status ", status, "): non-JSON response: ">>
                                 \o ContentSample(resp.body)),
           err    |-> NilError ]
    ELSE IF ~UnmarshalOK(resp.body)
    THEN [ apiErr |-> PlainError(<<"API error (status ", status, "): ">>
                                 \o ContentSample(resp.body)),
           err    |-> NilError ]
    ELSE [ apiErr |-> APIErrorValue(APIError(resp.status, UnmarshalErrors(resp.body))),
           err    |-> NilError ]

\* What Do returns: a response or nil, and an error; attempts counts the
\* calls of c.client.Do it made, response is the answer to the last of them.
DoResult(hasResp, resp, e) ==
    [ called |-> TRUE, response |-> resp, hasResp |-> hasResp, err |-> e, attempts |-> 1,
      panicked |-> FALSE ]

NoDo ==
    [ called |-> FALSE,
      response |-> [ fails |-> FALSE, status |-> 0, body |-> <<>>, readFails |-> FALSE ],
      hasResp |-> FALSE, err |-> NilError, attempts |-> 0, panicked |-> FALSE ]

\* Do panics in a log call: before c.client.Do when the entry log at
\* LogLevelInfo runs, after it when only the LogLevelError logs do.
DoPanic(c, resp) ==
    [ NoDo EXCEPT !.called = TRUE, !.panicked = TRUE, !.response = resp,
                  !.attempts = IF c.logLevel >= LogLevelInfo THEN 0 ELSE 1 ]

\* Do sending the request a second time after a 429 or 5xx answer.
DoRetrying(c, r, resp) ==
    IF ~resp.fails /\ (resp.status = 429 \/ resp.status >= 500)
    THEN [ DoResult(FALSE, resp, PlainError(<<"retries exhausted">>)) EXCEPT !.attempts = 2 ]
    ELSE DoResult(~resp.fails /\ resp.status < 400, resp,
                  IF resp.fails \/ resp.status >= 400 THEN PlainError(<<"failed">>) ELSE NilError)

\* Do handing the response back together with the error of a status of 400
\* or more.
DoKeepingResponse(c, r, resp) ==
    IF resp.fails
    THEN DoResult(FALSE, resp, PlainError(<<"failed to send request: ">>))
    ELSE IF resp.status >= 400
    THEN DoResult(TRUE, resp, PlainError(<<"HTTP ", ToString(resp.status)>>))
    ELSE DoResult(TRUE, resp, NilError)

\* Client.Do on request r, the underlying HTTP client answering resp.  It
\* logs at LogLevelInfo on entry and at LogLevelError when the send fails or
\* the status is 400 or more.
Do(c, r, resp) ==
    IF LogPanics(c, IF resp.fails \/ resp.status >= 400 THEN LogLevelError ELSE LogLevelInfo)
    THEN DoPanic(c, resp)
    ELSE IF resp.fails
    THEN DoResult(FALSE, resp, PlainError(<<"failed to send request: ">>))
    ELSE IF resp.status >= 400
    THEN IF /\ resp.status = 401
            /\ \/ HeaderGet(r.header, "Authorization") = EmptyString
               \/ HeaderGet(r.header, "Authorization") = <<"Bearer ">>
         THEN DoResult(FALSE, resp, PlainError(
                  <<"API authentication error (status 401): Developer token is missing or invalid. ">>))
         ELSE IF /\ resp.status = 401
                 /\ \/ ContainsSegment(r.path, "me")
                    \/ ContainsSegment(r.path, "library")
                 /\ HeaderGet(r.header, "Music-User-Token") = EmptyString
         THEN DoResult(FALSE, resp, PlainError(
                  <<"API authentication error (status 401): Music-User-Token is required for ">>
                  \o r.path))
         ELSE IF parseErrorResponse(resp).err # NilError
         THEN DoResult(FALSE, resp, PlainError(
                  <<"HTTP ", ToString(resp.status), ": failed to parse error response: ">>
                  \o parseErrorResponse(resp).err.msg))
         ELSE DoResult(FALSE, resp, parseErrorResponse(resp).apiErr)
    ELSE DoResult(TRUE, resp, NilError)

\* decodeJSONResponse leaving the result alone when the body is empty.
decodeJSONResponseSkipEmpty(resp) ==
    IF resp.readFails THEN PlainError(<<"failed to read response body: ">>)
    ELSE IF resp.body = <<>> THEN NilError
    ELSE IF ~UnmarshalOK(resp.body) THEN PlainError(<<"failed to unmarshal response: ">>)
    ELSE NilError

\* Client.decodeJSONResponse into a struct result: nil, or the error.
decodeJSONResponse(resp) ==
    IF resp.readFails THEN PlainError(<<"failed to read response body: ">>)
    ELSE IF ~UnmarshalOK(resp.body) THEN PlainError(<<"failed to unmarshal response: ">>)
    ELSE NilError

WrapResult(e) == [ called |-> TRUE, err |-> e, panicked |-> FALSE ]
NoWrap        == [ called |-> FALSE, err |-> NilError, panicked |-> FALSE ]
WrapPanic     == [ called |-> TRUE, err |-> NilError, panicked |-> TRUE ]

\* Get, Post, Put and Delete: a log at LogLevelInfo, NewRequest, Do,
\* decodeJSONResponse (which logs at LogLevelError when it fails).  The
\* result is <<request, Do's outcome, the error returned>>.
Wrapper(c, method, path, body, order, resp) ==
    LET r == NewRequest(c, method, path, body, order)
        d == Do(c, r, resp)
    IN  IF LogPanics(c, LogLevelInfo)
        THEN << NoRequest, NoDo, WrapPanic >>
        ELSE IF r.state = "panicked"
        THEN << r, NoDo, WrapPanic >>
        ELSE IF r.state = "error"
        THEN << r, NoDo, WrapResult(PlainError(<<"failed to encode request body: ">>)) >>
        ELSE IF d.panicked
        THEN << r, d, WrapPanic >>
        ELSE IF d.err # NilError
        THEN << r, d, WrapResult(d.err) >>
        ELSE IF decodeJSONResponse(resp) # NilError /\ LogPanics(c, LogLevelError)
        THEN << r, d, WrapPanic >>
        ELSE << r, d, WrapResult(decodeJSONResponse(resp)) >>

----------------------------------------------------------------------------
(* Package musickitkat: the SDK's entry point                              *)

\* The SDK client before musickitkat.NewClient has run.
NoSdk == [ built |-> FALSE, DeveloperToken |-> EmptyString, UserToken |-> EmptyString ]

\* musickitkat.NewClient(WithDeveloperToken(t), WithUserToken(u)): the
\* options write the SDK client's own fields; httpClient is client.NewClient()
\* and the services are built on it.  An option not given is the empty token.
SdkNewClient(t, u) ==
    [ sdk        |-> [ built |-> TRUE, DeveloperToken |-> t, UserToken |-> u ],
      httpClient |-> ClientNewClient(<<>>) ]

----------------------------------------------------------------------------
(* The transport's operations.  A run follows one request: the client is  *)
(* built and configured, then one request is built and sent.  NewRequest   *)
(* and Do leave the client as it is, so a later request meets the same     *)
(* client.                                                                 *)

\* No request has been built yet.
Configuring == req.state = "none" /\ ~wrapOut.called

\* client.NewClient(options...), used directly.
ClientNewClientCall ==
    /\ Configuring
    /\ \E opts \in ClientOptionSeqs :
           /\ cl' = ClientNewClient(opts)
           /\ sdk' = NoSdk
    /\ UNCHANGED <<req, doOut, wrapOut, errVars, authVars, devVars, searchVars, songVars, managerVars, concVars>>

\* musickitkat.NewClient(options...); cl becomes its httpClient.
SdkNewClientCall ==
    /\ Configuring
    /\ \E t \in DevTokens, u \in UserTokens :
           /\ sdk' = SdkNewClient(t, u).sdk
           /\ cl' = SdkNewClient(t, u).httpClient
    /\ UNCHANGED <<req, doOut, wrapOut, errVars, authVars, devVars, searchVars, songVars, managerVars, concVars>>

\* (*client.Client).SetDeveloperToken; the SDK's httpClient is unexported,
\* so the setters are within reach on a client used directly only.
SetDeveloperTokenCall ==
    /\ Configuring
    /\ ~sdk.built
    /\ \E t \in DevTokens : cl' = [cl EXCEPT !.developerToken = t]
    /\ UNCHANGED <<sdk, req, doOut, wrapOut, errVars, authVars, devVars, searchVars, songVars, managerVars, concVars>>

SetUserTokenCall ==
    /\ Configuring
    /\ ~sdk.built
    /\ \E u \in UserTokens : cl' = [cl EXCEPT !.userToken = u]
    /\ UNCHANGED <<sdk, req, doOut, wrapOut, errVars, authVars, devVars, searchVars, songVars, managerVars, concVars>>

NewRequestCall ==
    /\ Configuring
    /\ ~sdk.built
    /\ \E method \in Methods, path \in Paths, body \in RequestBodies,
          order \in Orders(DOMAIN cl.headers) :
           req' = NewRequest(cl, method, path, body, order)
    /\ UNCHANGED <<sdk, cl, doOut, wrapOut, errVars, authVars, devVars, searchVars, songVars, managerVars, concVars>>

DoCall ==
    /\ ~sdk.built
    /\ req.state = "built"
    /\ ~doOut.called /\ ~wrapOut.called
    /\ \E resp \in Responses : doOut' = Do(cl, req, resp)
    /\ UNCHANGED <<sdk, cl, req, wrapOut, errVars, authVars, devVars, searchVars, songVars, managerVars, concVars>>

\* One of Get, Post, Put and Delete runs and leaves its request, Do's
\* outcome and its own.
WrapperCall(method, bodies) ==
    /\ Configuring
    /\ \E path \in Paths, body \in bodies,
          order \in Orders(DOMAIN cl.headers), resp \in Responses :
           LET w == Wrapper(cl, method, path, body, order, resp)
           IN  /\ req' = w[1]
               /\ doOut' = w[2]
               /\ wrapOut' = w[3]
    /\ UNCHANGED <<sdk, cl, errVars, authVars, devVars, searchVars, songVars, managerVars, concVars>>

\* Get and Delete send no body; the services reach the transport through
\* these four.
GetCall    == WrapperCall("GET", { "nil" })
PostCall   == WrapperCall("POST", PostBodies)
PutCall    == WrapperCall("PUT", PostBodies)
DeleteCall == WrapperCall("DELETE", { "nil" })

\* client.NewClient(WithLogger(l), WithLogLevel(v)), used directly, with a
\* logger of the caller's and a level that enables logging.
ClientNewClientLoggingCall ==
    /\ Configuring
    /\ \E l \in Loggers \ { "discard" }, v \in LogLevels \ { LogLevelNone } :
           /\ cl' = [ ClientNewClient(<<>>) EXCEPT !.logger = l, !.logLevel = v ]
           /\ sdk' = NoSdk
    /\ UNCHANGED <<req, doOut, wrapOut, errVars, authVars, devVars, searchVars, songVars, managerVars, concVars>>

SetLogLevelCall ==
    /\ Configuring
    /\ ~sdk.built
    /\ \E v \in LogLevels : cl' = [cl EXCEPT !.logLevel = v]
    /\ UNCHANGED <<sdk, req, doOut, wrapOut, errVars, authVars, devVars, searchVars, songVars, managerVars, concVars>>

SetLoggerCall ==
    /\ Configuring
    /\ ~sdk.built
    /\ \E l \in Loggers : cl' = [cl EXCEPT !.logger = l]
    /\ UNCHANGED <<sdk, req, doOut, wrapOut, errVars, authVars, devVars, searchVars, songVars, managerVars, concVars>>

\* The transport with its logging configured.
NextLogging ==
    \/ SetLogLevelCall
    \/ SetLoggerCall
    \/ ClientNewClientLoggingCall
    \/ NewRequestCall
    \/ DoCall
    \/ GetCall
    \/ PostCall
    \/ PutCall
    \/ DeleteCall

NextClient ==
    \/ ClientNewClientCall
    \/ SdkNewClientCall
    \/ SetDeveloperTokenCall
    \/ SetUserTokenCall
    \/ NewRequestCall
    \/ DoCall
    \/ GetCall
    \/ PostCall
    \/ PutCall
    \/ DeleteCall

----------------------------------------------------------------------------
(* Package auth: the token cache and the UserTokenManager                  *)

\* The clock runs from 1 to MaxNow seconds.
MaxNow == 2

UserIDs == { "u1", "u2" }

\* oauth2's defaultExpiryDelta: Token.Valid treats a token as expired this
\* many seconds before its Expiry.
ExpiryDelta == 10

\* A *oauth2.Token: nil, or a record.  Expiry 0 is the zero time (no expiry).
Token(access, refresh, expiry) ==
    [ isNil |-> FALSE, AccessToken |-> access, RefreshToken |-> refresh, Expiry |-> expiry ]
NilToken ==
    [ isNil |-> TRUE, AccessToken |-> "", RefreshToken |-> "", Expiry |-> 0 ]

\* The expiries of the records callers save: passed or about to pass, and
\* around now + ExpiryDelta.  (A record without expiry comes from the
\* endpoint, whose answer may name no expires_in.)
SeedExpiries == { 1, ExpiryDelta + 1 }

\* The records callers hand to Save.
SeedTokens ==
    { Token("a1", "r1", e) : e \in SeedExpiries }
        \cup { Token("a1", "", 1), NilToken }

\* What the token endpoint answers to a refresh_token grant: a failure, or
\* the access_token, refresh_token and expires_in of its JSON.
EndpointAnswers ==
    { [ ok |-> FALSE, access |-> "", refresh |-> "", expiresIn |-> 0 ] }
        \cup { [ ok |-> TRUE, access |-> "a2", refresh |-> "", expiresIn |-> 20 ],
               [ ok |-> TRUE, access |-> "a2", refresh |-> "r2", expiresIn |-> 0 ] }
        \cup { [ ok |-> TRUE, access |-> "", refresh |-> "r2", expiresIn |-> 20 ] }

NoErr       == "nil"
ErrNotFound == "token not found for user"
ErrRefresh  == "failed to refresh token"
ErrSave     == "failed to save refreshed token"

\* MemoryTokenCache.Get
MemoryTokenCacheGetZeroValue(m, userID) ==
    IF userID \in DOMAIN m
    THEN [ token |-> m[userID], err |-> NoErr ]
    ELSE [ token |-> NilToken, err |-> NoErr ]

MemoryTokenCacheGet(m, userID) ==
    IF userID \in DOMAIN m
    THEN [ token |-> m[userID], err |-> NoErr ]
    ELSE [ token |-> NilToken, err |-> ErrNotFound ]

\* MemoryTokenCache.Save: c.tokens[userID] = token; return nil
MemoryTokenCacheSaveIfAbsent(m, userID, token) ==
    [ tokens |-> IF userID \in DOMAIN m THEN m ELSE MapAssign(m, userID, token),
      err    |-> NoErr ]

MemoryTokenCacheSaveOnly(m, userID, token) ==
    [ tokens |-> [ x \in {userID} |-> token ], err |-> NoErr ]

MemoryTokenCacheSave(m, userID, token) ==
    [ tokens |-> MapAssign(m, userID, token), err |-> NoErr ]

\* (*oauth2.Token).Valid: non-nil, with an access token, and not expired;
\* expired is Expiry.Add(-expiryDelta).Before(now) for a non-zero Expiry.
ValidInclusive(t, at) ==
    /\ ~t.isNil
    /\ t.AccessToken # ""
    /\ ~(t.Expiry # 0 /\ t.Expiry - ExpiryDelta <= at)

Valid(t, at) ==
    /\ ~t.isNil
    /\ t.AccessToken # ""
    /\ ~(t.Expiry # 0 /\ t.Expiry - ExpiryDelta < at)

\* The answers to the second request of a refresh or an exchange, which
\* oauth2 sends when the first one failed and it does not know yet how the
\* endpoint takes the client's credentials: none when no second request is
\* sent (the first answer stands in), else a failure or a token.
RetryAnswers(looked, answer) ==
    IF looked \/ (answer.ok /\ answer.access # "")
    THEN { answer }
    ELSE { [ ok |-> FALSE, access |-> "", refresh |-> "", expiresIn |-> 0 ],
           [ ok |-> TRUE, access |-> "a2", refresh |-> "", expiresIn |-> 20 ] }

\* oauth2's internal.RetrieveToken for a Config whose Endpoint.AuthStyle is
\* not set.  It looks the auth style of the token URL up before its first
\* POST (looked: a style was cached then) and waits for the answer; when
\* that POST fails (transport error, status outside 2xx, no access_token)
\* and no style was cached at the lookup, it POSTs a second time with the
\* credentials in the body and returns that outcome.  A success of a call
\* that found no style caches one (styleCached: the call found or cached
\* a style).
RetrieveToken(looked, answer, retry) ==
    IF answer.ok /\ answer.access # ""
    THEN [ ok |-> TRUE, answer |-> answer, netCalls |-> 1, styleCached |-> TRUE ]
    ELSE IF looked
    THEN [ ok |-> FALSE, answer |-> answer, netCalls |-> 1, styleCached |-> TRUE ]
    ELSE [ ok |-> retry.ok /\ retry.access # "", answer |-> retry, netCalls |-> 2,
           styleCached |-> retry.ok /\ retry.access # "" ]

\* oauth2's tokenRefresher, which holds the refresh token of the record it
\* was made for: it posts the refresh_token grant.  The new token keeps
\* the old refresh token when the answer names none, and expires
\* expires_in seconds after the answer (which comes at time at).
Refresher(refreshToken, at, looked, answer, retry) ==
    LET rt == RetrieveToken(looked, answer, retry)
    IN
    IF ~rt.ok
    THEN [ token |-> NilToken, err |-> ErrRefresh, netCalls |-> rt.netCalls,
           styleCached |-> rt.styleCached ]
    ELSE [ token |-> Token(rt.answer.access,
                           IF rt.answer.refresh = "" THEN refreshToken
                           ELSE rt.answer.refresh,
                           IF rt.answer.expiresIn = 0 THEN 0
                           ELSE at + rt.answer.expiresIn),
           err |-> NoErr, netCalls |-> rt.netCalls, styleCached |-> rt.styleCached ]

\* UserTokenManager.RefreshToken: oauthConfig.TokenSource(ctx, token).Token().
\* The source hands back a token that is still valid; else its refresher
\* asks the endpoint, unless the token holds no refresh token.
RefreshToken(t, at, looked, answer, retry) ==
    IF Valid(t, at)
    THEN [ token |-> t, err |-> NoErr, netCalls |-> 0, styleCached |-> looked ]
    ELSE IF t.isNil \/ t.RefreshToken = ""
    THEN [ token |-> NilToken, err |-> ErrRefresh, netCalls |-> 0,
           styleCached |-> looked ]
    ELSE Refresher(t.RefreshToken, at, looked, answer, retry)

\* What one GetUserToken call returns and does: the token and error, the
\* cache afterwards, the calls it made, the record it passed to Save, and
\* whether it found or cached the endpoint's auth style.
Trace(token, e, m, refreshCalls, netCalls, saveCalls, saved, styleCached) ==
    [ token |-> token, err |-> e, tokens |-> m, refreshCalls |-> refreshCalls,
      netCalls |-> netCalls, saveCalls |-> saveCalls, saved |-> saved,
      styleCached |-> styleCached ]

\* UserTokenManager.GetUserToken from the return of m.tokenCache.Get (got)
\* on: the cache holds m when Save runs, the endpoint answers at time at,
\* and styleCached tells whether oauth2 found an auth style before it asked.
GetUserTokenNoSave(m, userID, got, at, styleCached, answer, retry) ==
    LET r == RefreshToken(got.token, at, styleCached, answer, retry)
    IN  IF got.err # NoErr
        THEN Trace(NilToken, got.err, m, 0, 0, 0, NilToken, styleCached)
        ELSE IF Valid(got.token, at)
        THEN Trace(got.token, NoErr, m, 0, 0, 0, NilToken, styleCached)
        ELSE IF r.err # NoErr
        THEN Trace(NilToken, r.err, m, 1, r.netCalls, 0, NilToken, r.styleCached)
        ELSE Trace(r.token, NoErr, m, 1, r.netCalls, 0, NilToken, r.styleCached)

GetUserTokenSaveOnFailure(m, userID, got, at, styleCached, answer, retry) ==
    LET r  == RefreshToken(got.token, at, styleCached, answer, retry)
        sv == MemoryTokenCacheSave(m, userID, r.token)
    IN  IF got.err # NoErr
        THEN Trace(NilToken, got.err, m, 0, 0, 0, NilToken, styleCached)
        ELSE IF Valid(got.token, at)
        THEN Trace(got.token, NoErr, m, 0, 0, 0, NilToken, styleCached)
        ELSE IF r.err # NoErr
        THEN Trace(NilToken, r.err, sv.tokens, 1, r.netCalls, 1, r.token, r.styleCached)
        ELSE Trace(r.token, NoErr, sv.tokens, 1, r.netCalls, 1, r.token, r.styleCached)

GetUserToken(m, userID, got, at, styleCached, answer, retry) ==
    LET r  == RefreshToken(got.token, at, styleCached, answer, retry)
        sv == MemoryTokenCacheSave(m, userID, r.token)
    IN  IF got.err # NoErr
        THEN Trace(NilToken, got.err, m, 0, 0, 0, NilToken, styleCached)
        ELSE IF Valid(got.token, at)
        THEN Trace(got.token, NoErr, m, 0, 0, 0, NilToken, styleCached)
        ELSE IF r.err # NoErr
        THEN Trace(NilToken, r.err, m, 1, r.netCalls, 0, NilToken, r.styleCached)
        ELSE IF sv.err # NoErr
        THEN Trace(NilToken, ErrSave, sv.tokens, 1, r.netCalls, 1, r.token, r.styleCached)
        ELSE Trace(r.token, NoErr, sv.tokens, 1, r.netCalls, 1, r.token, r.styleCached)

\* The trace of a call: what it returned, the calls it made, the cache
\* before its last step (before) and the time of that step (at); for
\* GetUserToken also whether the userID was cached when Get ran, the record
\* Get returned (found) and the time Get ran (readAt).
NoOp ==
    [ op |-> "none", userID |-> "", token |-> NilToken, err |-> NoErr,
      refreshCalls |-> 0, netCalls |-> 0, saveCalls |-> 0,
      before |-> EmptyMap, at |-> 0,
      cached |-> FALSE, found |-> NilToken, readAt |-> 0 ]

\* No GetUserToken call is waiting on the token endpoint.
NoPending ==
    [ active |-> FALSE, userID |-> "", cached |-> FALSE,
      got |-> [ token |-> NilToken, err |-> NoErr ], at |-> 0, looked |-> FALSE ]

\* No RefreshToken and no ExchangeCode call is waiting on the token
\* endpoint.  A waiting call holds its argument (of a record, the refresh
\* token) and what its lookup of the auth style found.
NoRefreshing == [ active |-> FALSE, refreshToken |-> "", looked |-> FALSE ]
NoExchanging == [ active |-> FALSE, code |-> "", looked |-> FALSE ]
NoInflight == [ refresh |-> NoRefreshing, exchange |-> NoExchanging ]

\* An answer nothing reads: the call returns before RefreshToken.
NoAnswer == [ ok |-> FALSE, access |-> "", refresh |-> "", expiresIn |-> 0 ]

\* NewMemoryTokenCache: an empty map.
\* cache.Save(userID, token)
CacheSaveCall ==
    \E u \in UserIDs, t \in SeedTokens :
        /\ tokens' = MemoryTokenCacheSave(tokens, u, t).tokens
        /\ lastSaved' = MapAssign(lastSaved, u, t)
        /\ last' = [ NoOp EXCEPT !.op = "Save", !.userID = u, !.token = t,
                                 !.err = MemoryTokenCacheSave(tokens, u, t).err,
                                 !.saveCalls = 1, !.before = tokens, !.at = now ]
        /\ UNCHANGED <<now, authStyle, pending, inflight, errVars, clientVars, devVars, searchVars, songVars, managerVars, concVars>>

\* cache.Get(userID)
CacheGetCall ==
    \E u \in UserIDs :
        /\ last' = [ NoOp EXCEPT !.op = "Get", !.userID = u,
                                 !.token = MemoryTokenCacheGet(tokens, u).token,
                                 !.err = MemoryTokenCacheGet(tokens, u).err,
                                 !.before = tokens, !.at = now ]
        /\ UNCHANGED <<tokens, lastSaved, now, authStyle, pending, inflight, errVars, clientVars, devVars, searchVars, songVars, managerVars, concVars>>

\* manager.GetUserToken(ctx, userID) reads the cache and returns at once, or
\* finds a record that is not valid, looks the auth style up, posts the
\* grant and waits on the token endpoint.
GetUserTokenReads(u) ==
    LET got == MemoryTokenCacheGet(tokens, u)
        g   == GetUserToken(tokens, u, got, now, authStyle, NoAnswer, NoAnswer)
    IN  IF got.err # NoErr \/ Valid(got.token, now)
        THEN /\ last' = [ op |-> "GetUserToken", userID |-> u, token |-> g.token,
                          err |-> g.err, refreshCalls |-> g.refreshCalls,
                          netCalls |-> g.netCalls, saveCalls |-> g.saveCalls,
                          before |-> tokens, at |-> now,
                          cached |-> u \in DOMAIN tokens, found |-> got.token,
                          readAt |-> now ]
             /\ UNCHANGED pending
        ELSE /\ pending' = [ active |-> TRUE, userID |-> u,
                             cached |-> u \in DOMAIN tokens, got |-> got, at |-> now,
                             looked |-> authStyle ]
             /\ UNCHANGED last

\* The token endpoint answers the waiting GetUserToken call (twice when
\* the call probes), which saves the new record into the cache as it is by
\* now and returns.  A call that found a style, or succeeded, leaves one
\* cached.
GetUserTokenReturns(answer, retry) ==
    LET g == GetUserToken(tokens, pending.userID, pending.got, now, pending.looked, answer, retry)
    IN  /\ tokens' = g.tokens
        /\ lastSaved' = IF g.saveCalls = 1
                        THEN MapAssign(lastSaved, pending.userID, g.saved)
                        ELSE lastSaved
        /\ authStyle' = (authStyle \/ g.styleCached)
        /\ last' = [ op |-> "GetUserToken", userID |-> pending.userID,
                     token |-> g.token, err |-> g.err,
                     refreshCalls |-> g.refreshCalls, netCalls |-> g.netCalls,
                     saveCalls |-> g.saveCalls, before |-> tokens, at |-> now,
                     cached |-> pending.cached, found |-> pending.got.token,
                     readAt |-> pending.at ]
        /\ pending' = NoPending

\* Whether GetUserToken(ctx, u) returns without calling RefreshToken.
ReturnsAtOnce(u) ==
    \/ MemoryTokenCacheGet(tokens, u).err # NoErr
    \/ Valid(MemoryTokenCacheGet(tokens, u).token, now)

\* manager.GetUserToken(ctx, userID): a call begins, or the one that waits
\* on the endpoint goes on.  Other calls and the clock run while a call
\* waits, a GetUserToken of another caller that returns at once among them.
GetUserTokenCall ==
    /\ IF pending.active
       THEN \/ \E answer \in EndpointAnswers :
                  \E retry \in RetryAnswers(pending.looked, answer) :
                      GetUserTokenReturns(answer, retry)
            \/ \E u \in UserIDs :
                  /\ ReturnsAtOnce(u)
                  /\ GetUserTokenReads(u)
                  /\ UNCHANGED <<tokens, lastSaved, authStyle>>
       ELSE \E u \in UserIDs :
                /\ GetUserTokenReads(u)
                /\ UNCHANGED <<tokens, lastSaved, authStyle>>
    /\ UNCHANGED <<now, inflight, errVars, clientVars, devVars, searchVars, songVars, managerVars, concVars>>

\* Whether RefreshToken(ctx, t) returns without asking the endpoint.
RefreshReturnsAtOnce(t) == Valid(t, now) \/ t.isNil \/ t.RefreshToken = ""

\* manager.RefreshToken(ctx, t) returns at once, or looks the auth style
\* up, posts the grant and waits on the token endpoint.
RefreshTokenBegins(t) ==
    LET r == RefreshToken(t, now, authStyle, NoAnswer, NoAnswer)
    IN  IF RefreshReturnsAtOnce(t)
        THEN /\ last' = [ NoOp EXCEPT !.op = "RefreshToken",
                                      !.token = r.token, !.err = r.err,
                                      !.refreshCalls = 1, !.netCalls = r.netCalls,
                                      !.before = tokens, !.at = now ]
             /\ UNCHANGED inflight
        ELSE /\ inflight' = [ inflight EXCEPT !.refresh =
                                [ active |-> TRUE, refreshToken |-> t.RefreshToken,
                                  looked |-> authStyle ] ]
             /\ UNCHANGED last

\* The token endpoint answers the waiting RefreshToken call (twice when the
\* call probes), which returns.
RefreshTokenReturns(answer, retry) ==
    LET r == Refresher(inflight.refresh.refreshToken, now, inflight.refresh.looked,
                       answer, retry)
    IN  /\ last' = [ NoOp EXCEPT !.op = "RefreshToken",
                                 !.token = r.token, !.err = r.err,
                                 !.refreshCalls = 1, !.netCalls = r.netCalls,
                                 !.before = tokens, !.at = now ]
        /\ authStyle' = (authStyle \/ r.styleCached)
        /\ inflight' = [ inflight EXCEPT !.refresh = NoRefreshing ]

\* manager.RefreshToken(ctx, token): a call begins, or the one that waits
\* on the endpoint goes on.  Other calls and the clock run while a call
\* waits, a RefreshToken of another caller that returns at once among them.
RefreshTokenCall ==
    /\ IF inflight.refresh.active
       THEN \/ \E answer \in EndpointAnswers :
                  \E retry \in RetryAnswers(inflight.refresh.looked, answer) :
                      RefreshTokenReturns(answer, retry)
            \/ \E t \in SeedTokens :
                  /\ RefreshReturnsAtOnce(t)
                  /\ RefreshTokenBegins(t)
                  /\ UNCHANGED authStyle
       ELSE \E t \in SeedTokens :
                /\ RefreshTokenBegins(t)
                /\ UNCHANGED authStyle
    /\ UNCHANGED <<tokens, lastSaved, now, pending, errVars, clientVars, devVars, searchVars, songVars, managerVars, concVars>>

\* A second passes.
Tick ==
    /\ now < MaxNow
    /\ now' = now + 1
    /\ UNCHANGED <<tokens, lastSaved, last, authStyle, pending, inflight, errVars, clientVars, devVars, searchVars, songVars, managerVars, concVars>>

\* Callers of one manager and its cache.  One GetUserToken call and one
\* RefreshToken call wait on the endpoint at a time, each with the auth
\* style as it was when the call looked; two GetUserToken calls that both
\* wait are in SpecConcurrent.
NextAuth ==
    \/ CacheSaveCall
    \/ CacheGetCall
    \/ GetUserTokenCall
    \/ RefreshTokenCall
    \/ Tick

----------------------------------------------------------------------------
(* Package auth: the other operations of the UserTokenManager              *)

\* NewUserTokenManager(developerToken, clientID, redirectURL, nil): the
\* manager's oauth2.Config, and a fresh MemoryTokenCache that only the
\* manager holds.
ManagerClientID    == "com.example.app"
ManagerRedirectURL == "https://example.com/cb"
AuthURLEndpoint    == "https://appleid.apple.com/auth/authorize"

\* url.QueryEscape on the values of the authorization URL.
QueryEscape(v) ==
    IF v = "https://example.com/cb" THEN "https%3A%2F%2Fexample.com%2Fcb"
    ELSE IF v = "a b" THEN "a+b"
    ELSE v

\* The state values callers pass to GetAuthURL.
AuthStates == { "", "s1", "a b" }

\* UserTokenManager.GetAuthURL: oauthConfig.AuthCodeURL(state,
\* oauth2.AccessTypeOffline); the query is encoded sorted by key and names
\* the state only when it is not empty.
GetAuthURL(state) ==
    << AuthURLEndpoint, "?", "access_type=offline",
       "&client_id=", QueryEscape(ManagerClientID),
       "&redirect_uri=", QueryEscape(ManagerRedirectURL),
       "&response_type=code", "&scope=musickit" >>
    \o (IF state = "" THEN <<>> ELSE << "&state=", QueryEscape(state) >>)

NoAuthURL == <<>>

\* The authorization codes callers pass to ExchangeCode.
Codes == { "", "code1", "code2" }

ErrExchange == "oauth2: cannot fetch token"

\* UserTokenManager.ExchangeCode on a manager whose cache holds m:
\* oauthConfig.Exchange(ctx, code), the authorization_code grant; the token
\* of the answer is returned and the cache is not touched.
ExchangeCodeAndSave(m, code, at, looked, answer, retry) ==
    LET rt == RetrieveToken(looked, answer, retry)
        t  == Token(rt.answer.access, rt.answer.refresh,
                    IF rt.answer.expiresIn = 0 THEN 0 ELSE at + rt.answer.expiresIn)
    IN  IF ~rt.ok
        THEN [ token |-> NilToken, err |-> ErrExchange, tokens |-> m,
               netCalls |-> rt.netCalls, styleCached |-> rt.styleCached ]
        ELSE [ token |-> t, err |-> NoErr, tokens |-> MapAssign(m, "u1", t),
               netCalls |-> rt.netCalls, styleCached |-> rt.styleCached ]

ExchangeCode(m, code, at, looked, answer, retry) ==
    LET rt == RetrieveToken(looked, answer, retry)
        t  == Token(rt.answer.access, rt.answer.refresh,
                    IF rt.answer.expiresIn = 0 THEN 0 ELSE at + rt.answer.expiresIn)
    IN  IF ~rt.ok
        THEN [ token |-> NilToken, err |-> ErrExchange, tokens |-> m,
               netCalls |-> rt.netCalls, styleCached |-> rt.styleCached ]
        ELSE [ token |-> t, err |-> NoErr, tokens |-> m,
               netCalls |-> rt.netCalls, styleCached |-> rt.styleCached ]

NoExchange ==
    [ called |-> FALSE, code |-> "", token |-> NilToken, err |-> NoErr, netCalls |-> 0 ]

\* What https://api.music.apple.com/v1/me/tokens answers: the send fails, or
\* a status and a body that decodes into a UserTokenResponse or does not.
UserTokenAnswers ==
    { [ fails |-> TRUE,  status |-> 0,   decodes |-> FALSE, access |-> "",    expiresIn |-> 0 ],
      [ fails |-> FALSE, status |-> 200, decodes |-> TRUE,  access |-> "ut1", expiresIn |-> 3600 ],
      [ fails |-> FALSE, status |-> 200, decodes |-> TRUE,  access |-> "",    expiresIn |-> 0 ],
      [ fails |-> FALSE, status |-> 200, decodes |-> FALSE, access |-> "",    expiresIn |-> 0 ],
      [ fails |-> FALSE, status |-> 201, decodes |-> TRUE,  access |-> "ut1", expiresIn |-> 3600 ],
      [ fails |-> FALSE, status |-> 401, decodes |-> FALSE, access |-> "",    expiresIn |-> 0 ] }

\* A *UserTokenResponse: nil, or its access token and lifetime.
UserTokenResponse(access, expiresIn) ==
    [ isNil |-> FALSE, AccessToken |-> access, ExpiresIn |-> expiresIn ]
NilUserTokenResponse ==
    [ isNil |-> TRUE, AccessToken |-> "", ExpiresIn |-> 0 ]

ErrSendUserToken   == "failed to send request"
ErrGetUserToken    == "failed to get user token"
ErrDecodeUserToken == "failed to decode response"

\* UserTokenManager.RequestUserToken
RequestUserToken(musicUserToken, answer) ==
    IF answer.fails
    THEN [ called |-> TRUE, resp |-> NilUserTokenResponse, err |-> ErrSendUserToken ]
    ELSE IF answer.status # 200
    THEN [ called |-> TRUE, resp |-> NilUserTokenResponse, err |-> ErrGetUserToken ]
    ELSE IF ~answer.decodes
    THEN [ called |-> TRUE, resp |-> NilUserTokenResponse, err |-> ErrDecodeUserToken ]
    ELSE [ called |-> TRUE, resp |-> UserTokenResponse(answer.access, answer.expiresIn),
           err |-> NoErr ]

NoUserToken == [ called |-> FALSE, resp |-> NilUserTokenResponse, err |-> NoErr ]

MusicUserTokens == { "", "mut1" }

\* manager.GetAuthURL(state)
GetAuthURLCall ==
    \E state \in AuthStates :
        /\ authURL' = GetAuthURL(state)
        /\ UNCHANGED <<codeOut, userTokenOut, errVars, clientVars, authVars, devVars, searchVars, songVars, concVars>>

\* manager.ExchangeCode(ctx, code) looks the auth style up, posts the
\* grant and waits on the token endpoint.
ExchangeCodeBegins(code) ==
    inflight' = [ inflight EXCEPT !.exchange =
                    [ active |-> TRUE, code |-> code, looked |-> authStyle ] ]

\* The token endpoint answers the waiting ExchangeCode call (twice when the
\* call probes), which returns.
ExchangeCodeReturns(answer, retry) ==
    LET x == ExchangeCode(tokens, inflight.exchange.code, now,
                          inflight.exchange.looked, answer, retry)
    IN  /\ codeOut' = [ called |-> TRUE, code |-> inflight.exchange.code,
                        token |-> x.token, err |-> x.err, netCalls |-> x.netCalls ]
        /\ tokens' = x.tokens
        /\ authStyle' = (authStyle \/ x.styleCached)
        /\ inflight' = [ inflight EXCEPT !.exchange = NoExchanging ]

\* manager.ExchangeCode(ctx, code): a call begins, or the one that waits on
\* the endpoint goes on.  Other calls and the clock run while it waits.
ExchangeCodeCall ==
    /\ IF inflight.exchange.active
       THEN \E answer \in EndpointAnswers :
                \E retry \in RetryAnswers(inflight.exchange.looked, answer) :
                    ExchangeCodeReturns(answer, retry)
       ELSE \E code \in Codes :
                /\ ExchangeCodeBegins(code)
                /\ UNCHANGED <<codeOut, tokens, authStyle>>
    /\ UNCHANGED <<authURL, userTokenOut, now, last, lastSaved, pending, errVars, clientVars, devVars, searchVars, songVars, concVars>>

\* manager.RequestUserToken(ctx, musicUserToken)
RequestUserTokenCall ==
    \E t \in MusicUserTokens, answer \in UserTokenAnswers :
        /\ userTokenOut' = RequestUserToken(t, answer)
        /\ UNCHANGED <<authURL, codeOut, errVars, clientVars, authVars, devVars, searchVars, songVars, concVars>>

\* A manager built with a nil cache: callers reach its cache only through
\* the manager's methods.  The clock stands still in this specification.
NextManager ==
    \/ GetAuthURLCall
    \/ ExchangeCodeCall
    \/ RequestUserTokenCall
    \/ RefreshTokenCall
    \/ GetUserTokenCall

----------------------------------------------------------------------------
(* Package auth: goroutines sharing one cache and one manager              *)

\* The goroutines make at most MaxCalls calls between them.
MaxCalls == 3

Goroutines == { 1, 2 }

\* The records the goroutines save: one that has expired, one still valid.
ConcurrentTokens == { Token("a1", "r1", 1), Token("a1", "r1", 0) }

\* What the token endpoint answers to the goroutines' refreshes.
ConcurrentAnswers ==
    { [ ok |-> FALSE, access |-> "", refresh |-> "", expiresIn |-> 0 ],
      [ ok |-> TRUE, access |-> "a2", refresh |-> "", expiresIn |-> 20 ],
      [ ok |-> TRUE, access |-> "a3", refresh |-> "r2", expiresIn |-> 20 ] }

\* The result a goroutine's last call returned: the record Get found
\* (observed), whether another goroutine was writing the map at the time
\* (raced), and the endpoint calls it made.
Result(op, userID, token, e, observed, raced, netCalls) ==
    [ op |-> op, userID |-> userID, token |-> token, err |-> e,
      observed |-> observed, raced |-> raced, netCalls |-> netCalls ]

NoResult == Result("none", "", NilToken, NoErr, NilToken, FALSE, 0)

\* A goroutine between calls (pc "idle"), or inside Save or GetUserToken:
\* "refreshing" after Get found a record that is not valid and oauth2
\* looked the auth style up (looked: one was cached) and posted the grant,
\* "refreshed" with the new record (arg) before Save, "writing" inside the
\* map assignment c.tokens[userID] = token.
IdleGoroutine ==
    [ pc |-> "idle", op |-> "none", userID |-> "", arg |-> NilToken,
      observed |-> NilToken, raced |-> FALSE, netCalls |-> 0, calls |-> 0,
      looked |-> FALSE, out |-> NoResult ]

\* The call of goroutine g returns.
Return(g, token, e) ==
    [ IdleGoroutine EXCEPT
        !.calls = g.calls,
        !.out = Result(g.op, g.userID, token, e, g.observed, g.raced, g.netCalls) ]

\* MemoryTokenCache and UserTokenManager hold no mutex: no goroutine waits
\* for another before it enters Get, Save or GetUserToken.
LockedByMutex(gs, g) == \E h \in DOMAIN gs : h # g /\ gs[h].pc # "idle"

Locked(gs, g) == FALSE

\* Another goroutine is inside the map assignment: an access of g to the
\* map now is a data race.
Racing(gs, g) == \E h \in DOMAIN gs : h # g /\ gs[h].pc = "writing"

\* GetUserToken after its Get, by goroutine g that found token: the call
\* returns, or goes on to refresh.
AfterGet(g, got, at, styleCached) ==
    IF got.err # NoErr THEN Return(g, NilToken, got.err)
    ELSE IF Valid(got.token, at) THEN Return(g, got.token, NoErr)
    ELSE [ g EXCEPT !.pc = "refreshing", !.looked = styleCached ]

\* GetUserToken's RefreshToken by goroutine g, each caller asking the
\* endpoint itself.
AfterRefreshSingleFlight(gs, g, r) ==
    IF \E h \in DOMAIN gs : gs[h].pc \in { "refreshed", "writing" }
                              /\ gs[h].op = "GetUserToken" /\ gs[h].userID = g.userID
    THEN LET h == CHOOSE h \in DOMAIN gs :
                      gs[h].pc \in { "refreshed", "writing" }
                      /\ gs[h].op = "GetUserToken" /\ gs[h].userID = g.userID
         IN  Return(g, gs[h].arg, NoErr)
    ELSE IF r.err # NoErr
    THEN Return([ g EXCEPT !.netCalls = r.netCalls ], NilToken, r.err)
    ELSE [ g EXCEPT !.pc = "refreshed", !.arg = r.token, !.netCalls = r.netCalls ]

AfterRefresh(gs, g, r) ==
    IF r.err # NoErr
    THEN Return([ g EXCEPT !.netCalls = r.netCalls ], NilToken, r.err)
    ELSE [ g EXCEPT !.pc = "refreshed", !.arg = r.token, !.netCalls = r.netCalls ]

\* The calls the goroutines have made so far.
CallsMade(gs) == gs[1].calls + gs[2].calls

\* The endpoint calls of goroutine g's call, returned or not.
NetCallsOf(g) == IF g.pc = "idle" THEN g.out.netCalls ELSE g.netCalls

\* The runtime detects the concurrent map access and stops the program.
Throw ==
    /\ fatal' = TRUE
    /\ UNCHANGED <<gor, endpointLog, tokens, lastSaved>>

\* go cache.Get(userID): one read of the map.  Racing with a write, the
\* runtime may stop the program; else the read sees the map without the
\* write in progress.
GoGet(g) ==
    /\ ~fatal /\ gor[g].pc = "idle" /\ CallsMade(gor) < MaxCalls
    /\ ~Locked(gor, g)
    /\ \E u \in UserIDs :
           \/ Racing(gor, g) /\ Throw
           \/ /\ gor' = [ gor EXCEPT ![g] =
                           Return([ @ EXCEPT !.op = "Get", !.userID = u,
                                             !.calls = @ + 1,
                                             !.observed = MemoryTokenCacheGet(tokens, u).token,
                                             !.raced = Racing(gor, g) ],
                                  MemoryTokenCacheGet(tokens, u).token,
                                  MemoryTokenCacheGet(tokens, u).err) ]
              /\ UNCHANGED <<fatal, endpointLog, tokens, lastSaved>>
    /\ UNCHANGED <<now, last, authStyle, pending, inflight, errVars, clientVars, devVars, searchVars, songVars, managerVars>>

\* go cache.Save(userID, token): the map assignment begins.
GoSave(g) ==
    /\ ~fatal /\ gor[g].pc = "idle" /\ CallsMade(gor) < MaxCalls
    /\ ~Locked(gor, g)
    /\ \E u \in UserIDs, t \in ConcurrentTokens :
           \/ Racing(gor, g) /\ Throw
           \/ /\ gor' = [ gor EXCEPT ![g] =
                           [ @ EXCEPT !.pc = "writing", !.op = "Save", !.userID = u,
                                      !.arg = t, !.calls = @ + 1,
                                      !.raced = Racing(gor, g) ] ]
              /\ UNCHANGED <<fatal, endpointLog, tokens, lastSaved>>
    /\ UNCHANGED <<now, last, authStyle, pending, inflight, errVars, clientVars, devVars, searchVars, songVars, managerVars>>

\* go manager.GetUserToken(ctx, userID): its tokenCache.Get and Valid.
GoGetUserToken(g) ==
    /\ ~fatal /\ gor[g].pc = "idle" /\ CallsMade(gor) < MaxCalls
    /\ ~Locked(gor, g)
    /\ \E u \in UserIDs :
           \/ Racing(gor, g) /\ Throw
           \/ /\ gor' = [ gor EXCEPT ![g] =
                           AfterGet([ @ EXCEPT !.op = "GetUserToken", !.userID = u,
                                               !.calls = @ + 1,
                                               !.observed = MemoryTokenCacheGet(tokens, u).token,
                                               !.raced = Racing(gor, g) ],
                                    MemoryTokenCacheGet(tokens, u), now, authStyle) ]
              /\ UNCHANGED <<fatal, endpointLog, tokens, lastSaved>>
    /\ UNCHANGED <<now, last, authStyle, pending, inflight, errVars, clientVars, devVars, searchVars, songVars, managerVars>>

\* GetUserToken's m.RefreshToken(ctx, token), the endpoint answering (twice
\* when the call probes).
GoRefresh(g) ==
    /\ ~fatal /\ gor[g].pc = "refreshing"
    /\ \E answer \in ConcurrentAnswers :
           \E retry \in RetryAnswers(gor[g].looked, answer) :
               LET r == RefreshToken(gor[g].observed, now, gor[g].looked, answer, retry)
                   n == NetCallsOf(AfterRefresh(gor, gor[g], r))
                   sent == gor[g].observed.RefreshToken
               IN  /\ gor' = [ gor EXCEPT ![g] = AfterRefresh(gor, @, r) ]
                   /\ endpointLog' = IF n = 2 THEN endpointLog \o << sent, sent >>
                                     ELSE IF n = 1 THEN Append(endpointLog, sent)
                                     ELSE endpointLog
                   /\ authStyle' = (authStyle \/ r.styleCached)
    /\ UNCHANGED <<fatal, tokens, lastSaved>>
    /\ UNCHANGED <<now, last, pending, inflight, errVars, clientVars, devVars, searchVars, songVars, managerVars>>

\* GetUserToken's m.tokenCache.Save(userID, newToken): the map assignment
\* begins.
GoSaveRefreshed(g) ==
    /\ ~fatal /\ gor[g].pc = "refreshed"
    /\ \/ Racing(gor, g) /\ Throw
       \/ /\ gor' = [ gor EXCEPT ![g] =
                       [ @ EXCEPT !.pc = "writing", !.raced = @ \/ Racing(gor, g) ] ]
          /\ UNCHANGED <<fatal, endpointLog, tokens, lastSaved>>
    /\ UNCHANGED <<now, last, authStyle, pending, inflight, errVars, clientVars, devVars, searchVars, songVars, managerVars>>

\* The map assignment of Save completes and the call returns: Save's nil,
\* or GetUserToken's new record.
GoWritten(g) ==
    /\ ~fatal /\ gor[g].pc = "writing"
    /\ tokens' = MemoryTokenCacheSave(tokens, gor[g].userID, gor[g].arg).tokens
    /\ lastSaved' = MapAssign(lastSaved, gor[g].userID, gor[g].arg)
    /\ gor' = [ gor EXCEPT ![g] = Return(@, @.arg, NoErr) ]
    /\ UNCHANGED <<fatal, endpointLog>>
    /\ UNCHANGED <<now, last, authStyle, pending, inflight, errVars, clientVars, devVars, searchVars, songVars, managerVars>>

\* Two goroutines inside the map assignment: the runtime may stop the
\* program with "concurrent map writes".
GoThrow ==
    /\ ~fatal
    /\ \E g \in Goroutines : gor[g].pc = "writing" /\ Racing(gor, g)
    /\ Throw
    /\ UNCHANGED <<now, last, authStyle, pending, inflight, errVars, clientVars, devVars, searchVars, songVars, managerVars>>

NextConcurrent ==
    \/ \E g \in Goroutines : GoGet(g)
    \/ \E g \in Goroutines : GoSave(g)
    \/ \E g \in Goroutines : GoGetUserToken(g)
    \/ \E g \in Goroutines : GoRefresh(g)
    \/ \E g \in Goroutines : GoSaveRefreshed(g)
    \/ \E g \in Goroutines : GoWritten(g)
    \/ GoThrow

----------------------------------------------------------------------------
(* Package auth: the developer token                                       *)

\* time.Time values are counted in ticks of 1/TicksPerSecond second, so that
\* Unix(), which drops the fraction of a second, is not the identity.
TicksPerSecond == 2
\* The clock runs up to MaxClockSeconds seconds.
MaxClockSeconds == 12
MaxClock == MaxClockSeconds * TicksPerSecond

\* DefaultTokenExpiration, in seconds (6 * 30 * 24 hours).
DefaultTokenExpiration == 15552000

Seconds(n) == n * TicksPerSecond

\* (time.Time).Unix(): the whole seconds since the epoch.
Unix(t) == t \div TicksPerSecond

\* The PEM blocks a caller may pass: not a PEM-encoded EC key, an EC key on
\* P-384, an EC key on P-256.
PrivateKeys == { "notPEM", "P384", "P256" }

\* jwt.ParseECPrivateKeyFromPEM fails on anything but an EC private key.
ParseECPrivateKeyFromPEMFails(pem) == pem = "notPEM"

\* token.SignedString with SigningMethodES256 fails unless the key's curve
\* is P-256.
SignedStringFails(pem) == pem # "P256"

\* A *DeveloperToken.  The signed JWT is modelled by the claims it carries
\* (iat, exp); parses says whether jwt.Parser.ParseUnverified accepts the
\* string, which it does for a JWT and does not for the "" of a DeveloperToken{}.
DeveloperToken(iat, exp) == [isNil |-> FALSE, parses |-> TRUE, iat |-> iat, exp |-> exp]
ZeroDeveloperToken == [isNil |-> FALSE, parses |-> FALSE, iat |-> 0, exp |-> 0]
NilDeveloperToken  == [isNil |-> TRUE, parses |-> FALSE, iat |-> 0, exp |-> 0]

ErrParseKey == "failed to parse private key"
ErrSign     == "failed to sign token"
ErrParseToken == "failed to parse token"

\* DeveloperTokenConfig: the fields that decide the outcome.  TeamID, KeyID
\* and MusicID are copied into iss, kid and sub and read by nothing.
DeveloperTokenConfig(privateKey, expiresAt) == [PrivateKey |-> privateKey, ExpiresAt |-> expiresAt]

\* NewDeveloperTokenFromConfig, with at the time.Now() it reads for iat.
NewDeveloperTokenFromConfig(config, at) ==
    IF ParseECPrivateKeyFromPEMFails(config.PrivateKey)
    THEN [token |-> NilDeveloperToken, err |-> ErrParseKey]
    ELSE IF SignedStringFails(config.PrivateKey)
    THEN [token |-> NilDeveloperToken, err |-> ErrSign]
    ELSE [token |-> DeveloperToken(Unix(at), Unix(config.ExpiresAt)), err |-> NoErr]

NewDeveloperTokenWithExpiry(privateKey, expiresAt, at) ==
    NewDeveloperTokenFromConfig(DeveloperTokenConfig(privateKey, expiresAt), at)

\* NewDeveloperToken reads time.Now() at at0 for the expiry; the time.Now()
\* in NewDeveloperTokenFromConfig is read after it, at at.
NewDeveloperToken(privateKey, at0, at) ==
    NewDeveloperTokenWithExpiry(privateKey, at0 + Seconds(DefaultTokenExpiration), at)

\* (*DeveloperToken).IsExpired at time at: (expired, err).
IsExpiredInclusive(t, at) ==
    IF ~t.parses THEN [expired |-> FALSE, err |-> ErrParseToken]
    ELSE [expired |-> Unix(at) >= t.exp, err |-> NoErr]

IsExpired(t, at) ==
    IF ~t.parses THEN [expired |-> FALSE, err |-> ErrParseToken]
    ELSE [expired |-> Unix(at) > t.exp, err |-> NoErr]

\* The expiries a caller passes, as offsets from the time of the call: in
\* the past, now, a fraction of a second ahead, one and ten seconds ahead.
ExpiryOffsets == { 0 - Seconds(1), 0, 1, Seconds(1), Seconds(10) }

\* devToken: the constructor's results, and what it was called with.
NoDevToken ==
    [made |-> FALSE, ctor |-> "none", token |-> NilDeveloperToken, err |-> NoErr,
     expiresAt |-> 0, madeAt |-> 0]
DevTokenMade(ctor, res, expiresAt, madeAt) ==
    [made |-> TRUE, ctor |-> ctor, token |-> res.token, err |-> res.err,
     expiresAt |-> expiresAt, madeAt |-> madeAt]

\* isExpiredOut: the last IsExpired result on devToken.token, the time of the
\* call, and whether an earlier call on the same token returned true.
NoIsExpired == [called |-> FALSE, at |-> 0, expired |-> FALSE, err |-> NoErr, before |-> FALSE]

NewDeveloperTokenCall ==
    \E key \in PrivateKeys, at \in { clock, clock + 1 } \cap (0..MaxClock) :
        /\ devToken' = DevTokenMade("NewDeveloperToken", NewDeveloperToken(key, clock, at),
                                    clock + Seconds(DefaultTokenExpiration), at)
        /\ clock' = at
        /\ isExpiredOut' = NoIsExpired
        /\ UNCHANGED <<errVars, clientVars, authVars, searchVars, songVars, managerVars, concVars>>

NewDeveloperTokenWithExpiryCall ==
    \E key \in PrivateKeys, d \in ExpiryOffsets :
        /\ devToken' = DevTokenMade("NewDeveloperTokenWithExpiry",
                                    NewDeveloperTokenWithExpiry(key, clock + d, clock),
                                    clock + d, clock)
        /\ isExpiredOut' = NoIsExpired
        /\ UNCHANGED <<clock, errVars, clientVars, authVars, searchVars, songVars, managerVars, concVars>>

NewDeveloperTokenFromConfigCall ==
    \E key \in PrivateKeys, d \in ExpiryOffsets :
        /\ devToken' = DevTokenMade("NewDeveloperTokenFromConfig",
                                    NewDeveloperTokenFromConfig(DeveloperTokenConfig(key, clock + d), clock),
                                    clock + d, clock)
        /\ isExpiredOut' = NoIsExpired
        /\ UNCHANGED <<clock, errVars, clientVars, authVars, searchVars, songVars, managerVars, concVars>>

\* A caller outside the package writes &auth.DeveloperToken{}.
ZeroDeveloperTokenLiteral ==
    /\ devToken' = DevTokenMade("literal", [token |-> ZeroDeveloperToken, err |-> NoErr], 0, clock)
    /\ isExpiredOut' = NoIsExpired
    /\ UNCHANGED <<clock, errVars, clientVars, authVars, searchVars, songVars, managerVars, concVars>>

IsExpiredCall ==
    /\ devToken.made /\ ~devToken.token.isNil
    /\ LET r == IsExpired(devToken.token, clock)
       IN  isExpiredOut' = [called |-> TRUE, at |-> clock, expired |-> r.expired, err |-> r.err,
                            before |-> isExpiredOut.before \/ isExpiredOut.expired]
    /\ UNCHANGED <<clock, devToken, errVars, clientVars, authVars, searchVars, songVars, managerVars, concVars>>

\* The wall clock advances.
ClockTick ==
    /\ clock < MaxClock
    /\ clock' = clock + 1
    /\ UNCHANGED <<devToken, isExpiredOut, errVars, clientVars, authVars, searchVars, songVars, managerVars, concVars>>

NextDeveloperToken ==
    \/ NewDeveloperTokenCall
    \/ NewDeveloperTokenWithExpiryCall
    \/ NewDeveloperTokenFromConfigCall
    \/ ZeroDeveloperTokenLiteral
    \/ IsExpiredCall
    \/ ClockTick

----------------------------------------------------------------------------
(* Package services: the search service                                    *)

\* NewSearchService's storefront.
DefaultStorefront == "us"

\* The storefronts, search terms, limits, offsets and language tags a caller passes.
Storefronts  == { "", "jp", "fr" }
Terms        == { "", "pop" }
Limits       == { 0, 5 }
LanguageTags == { "", "en-US" }

\* *models.SearchOptions: nil, or the fields Search reads (Include, Exclude
\* and Extend are left empty).
NilSearchOptions ==
    [ isNil |-> TRUE, Limit |-> 0, Offset |-> 0, Storefront |-> "", LanguageTag |-> "" ]
SearchOptions ==
    { NilSearchOptions }
        \cup [ isNil : { FALSE }, Limit : Limits, Offset : Limits,
               Storefront : Storefronts, LanguageTag : LanguageTags ]

\* The types argument: none, or songs and albums.
TypeLists == { <<>>, <<"songs", "albums">> }

\* url.Values after Search's Set calls: the keys that are set, each with its value.
SearchQueryParams(term, types, options) ==
    [ term   |-> term,
      types  |-> IF Len(types) > 0 THEN types ELSE <<>>,
      limit  |-> IF ~options.isNil /\ options.Limit > 0 THEN options.Limit ELSE 0,
      offset |-> IF ~options.isNil /\ options.Offset > 0 THEN options.Offset ELSE 0,
      l      |-> IF ~options.isNil THEN options.LanguageTag ELSE "" ]

HintsQueryParams(term) ==
    [ term |-> term, types |-> <<>>, limit |-> 0, offset |-> 0, l |-> "" ]

\* BaseService.buildPath: the path's segments and its query.
buildPath(segments, queryParams) == [ segments |-> segments, query |-> queryParams ]

NoPath == buildPath(<<>>, HintsQueryParams(""))

ErrTermRequired == "search term is required"
ErrGet          == "client.Get failed"

\* What a search call leaves: the service's storefront, the path it
\* requested (requested is false when it returned before the request) and
\* its error.
SearchResult(sf, requested, path, e) ==
    [ storefront |-> sf, requested |-> requested, path |-> path, err |-> e ]

\* SearchService.Search on a service whose storefront is sf; getFails says
\* whether s.client.Get returns an error.
Search(sf, term, types, options, getFails) ==
    IF term = "" THEN SearchResult(sf, FALSE, NoPath, ErrTermRequired)
    ELSE LET sf2 == IF ~options.isNil /\ options.Storefront # ""
                    THEN options.Storefront ELSE sf
         IN  SearchResult(sf2, TRUE,
                          buildPath(<<"catalog", sf2, "search">>,
                                    SearchQueryParams(term, types, options)),
                          IF getFails THEN ErrGet ELSE NoErr)

\* SearchService.SearchHints
SearchHints(sf, term, getFails) ==
    IF term = "" THEN SearchResult(sf, FALSE, NoPath, ErrTermRequired)
    ELSE SearchResult(sf, TRUE,
                      buildPath(<<"catalog", sf, "search", "hints">>, HintsQueryParams(term)),
                      IF getFails THEN ErrGet ELSE NoErr)

\* searchOut: the call, the storefront its options named, and what it requested.
NoSearch ==
    [ op |-> "none", optStorefront |-> "", requested |-> FALSE, path |-> NoPath,
      err |-> NoErr ]

SetStorefrontCall ==
    \E sf \in Storefronts :
        /\ storefront' = sf
        /\ defaultStorefront' = sf
        /\ searchOut' = [ NoSearch EXCEPT !.op = "SetStorefront" ]
        /\ UNCHANGED <<errVars, clientVars, authVars, devVars, songVars, managerVars, concVars>>

SearchCall ==
    \E term \in Terms, types \in TypeLists, options \in SearchOptions, getFails \in BOOLEAN :
        LET r == Search(storefront, term, types, options, getFails)
        IN  /\ storefront' = r.storefront
            /\ searchOut' = [ op |-> "Search",
                              optStorefront |-> IF options.isNil THEN "" ELSE options.Storefront,
                              requested |-> r.requested, path |-> r.path, err |-> r.err ]
            /\ UNCHANGED <<defaultStorefront, errVars, clientVars, authVars, devVars, songVars, managerVars, concVars>>

SearchHintsCall ==
    \E term \in Terms, getFails \in BOOLEAN :
        LET r == SearchHints(storefront, term, getFails)
        IN  /\ storefront' = r.storefront
            /\ searchOut' = [ op |-> "SearchHints", optStorefront |-> "",
                              requested |-> r.requested, path |-> r.path, err |-> r.err ]
            /\ UNCHANGED <<defaultStorefront, errVars, clientVars, authVars, devVars, songVars, managerVars, concVars>>

NextSearch ==
    \/ SetStorefrontCall
    \/ SearchCall
    \/ SearchHintsCall

----------------------------------------------------------------------------
(* Package models: a song's preview URL                                    *)

\* A song carries at most MaxPreviews previews.
MaxPreviews == 2

\* The URLs a preview or the play parameters may carry.
PreviewURLs == { "", "https://p/1", "https://p/2" }

\* models.Preview: the fields GetPreviewURL reads.
Previews == [ URL : PreviewURLs, Playable : BOOLEAN ]

\* A *models.Song: Attributes.Previews and Attributes.PlayParams.PreviewURL.
Song(previews, playParamsPreviewURL) ==
    [ Previews |-> previews, PlayParamsPreviewURL |-> playParamsPreviewURL ]

Songs == { Song(ps, u) : ps \in SeqsUpTo(Previews, MaxPreviews), u \in PreviewURLs }

NoSong == Song(<<>>, "")

\* (*Song).GetPreviewURL
GetPreviewURL(s) ==
    IF Len(s.Previews) = 0
    THEN IF s.PlayParamsPreviewURL # "" THEN s.PlayParamsPreviewURL ELSE ""
    ELSE IF \E i \in 1..Len(s.Previews) : s.Previews[i].Playable
    THEN s.Previews[CHOOSE i \in 1..Len(s.Previews) :
                       /\ s.Previews[i].Playable
                       /\ \A j \in 1..(i - 1) : ~s.Previews[j].Playable].URL
    ELSE s.Previews[1].URL

ErrGetSong   == "GetSong failed"
ErrNoPreview == "no preview available for song"

\* What GetSong returns: an error (the request failed, or no song came back)
\* or a song.
GetSongResults == { [ err |-> ErrGetSong, song |-> NoSong ] }
                      \cup { [ err |-> NoErr, song |-> s ] : s \in Songs }

\* CatalogService.GetSongPreviewURL, GetSong returning got: (url, err).
GetSongPreviewURL(got) ==
    IF got.err # NoErr THEN [ url |-> "", err |-> got.err ]
    ELSE IF GetPreviewURL(got.song) = "" THEN [ url |-> "", err |-> ErrNoPreview ]
    ELSE [ url |-> GetPreviewURL(got.song), err |-> NoErr ]

NoPreview == [ op |-> "none", url |-> "", err |-> NoErr ]

GetPreviewURLCall ==
    \E s \in Songs :
        /\ song' = s
        /\ previewOut' = [ op |-> "GetPreviewURL", url |-> GetPreviewURL(s), err |-> NoErr ]
        /\ UNCHANGED <<errVars, clientVars, authVars, devVars, searchVars, managerVars, concVars>>

GetSongPreviewURLCall ==
    \E got \in GetSongResults :
        /\ song' = got.song
        /\ previewOut' = [ op |-> "GetSongPreviewURL", url |-> GetSongPreviewURL(got).url,
                           err |-> GetSongPreviewURL(got).err ]
        /\ UNCHANGED <<errVars, clientVars, authVars, devVars, searchVars, managerVars, concVars>>

NextSong ==
    \/ GetPreviewURLCall
    \/ GetSongPreviewURLCall

----------------------------------------------------------------------------
(* Specifications: each package on its own, the others idle                *)

\* Package errors: any error value may be handed to it; the client and the
\* token manager are freshly constructed and stay so.
InitErrors ==
    /\ err \in ErrorValues
    /\ errOut = NoCall
    /\ sdk = NoSdk
    /\ cl = ClientNewClient(<<>>)
    /\ req = NoRequest
    /\ doOut = NoDo
    /\ wrapOut = NoWrap
    /\ tokens = EmptyMap
    /\ lastSaved = EmptyMap
    /\ now = 1
    /\ last = NoOp
    /\ authStyle = FALSE
    /\ pending = NoPending
    /\ inflight = NoInflight
    /\ clock = 0
    /\ devToken = NoDevToken
    /\ isExpiredOut = NoIsExpired
    /\ storefront = DefaultStorefront
    /\ defaultStorefront = DefaultStorefront
    /\ searchOut = NoSearch
    /\ song = NoSong
    /\ previewOut = NoPreview
    /\ authURL = NoAuthURL
    /\ codeOut = NoExchange
    /\ userTokenOut = NoUserToken
    /\ gor = [ g \in Goroutines |-> IdleGoroutine ]
    /\ fatal = FALSE
    /\ endpointLog = <<>>

\* Package client: a client built by NewClient() with no options.
InitClient ==
    /\ err = NilError
    /\ errOut = NoCall
    /\ sdk = NoSdk
    /\ cl = ClientNewClient(<<>>)
    /\ req = NoRequest
    /\ doOut = NoDo
    /\ wrapOut = NoWrap
    /\ tokens = EmptyMap
    /\ lastSaved = EmptyMap
    /\ now = 1
    /\ last = NoOp
    /\ authStyle = FALSE
    /\ pending = NoPending
    /\ inflight = NoInflight
    /\ clock = 0
    /\ devToken = NoDevToken
    /\ isExpiredOut = NoIsExpired
    /\ storefront = DefaultStorefront
    /\ defaultStorefront = DefaultStorefront
    /\ searchOut = NoSearch
    /\ song = NoSong
    /\ previewOut = NoPreview
    /\ authURL = NoAuthURL
    /\ codeOut = NoExchange
    /\ userTokenOut = NoUserToken
    /\ gor = [ g \in Goroutines |-> IdleGoroutine ]
    /\ fatal = FALSE
    /\ endpointLog = <<>>

\* Package auth: an empty MemoryTokenCache behind a UserTokenManager.
InitAuth ==
    /\ err = NilError
    /\ errOut = NoCall
    /\ sdk = NoSdk
    /\ cl = ClientNewClient(<<>>)
    /\ req = NoRequest
    /\ doOut = NoDo
    /\ wrapOut = NoWrap
    /\ tokens = EmptyMap
    /\ lastSaved = EmptyMap
    /\ now = 1
    /\ last = NoOp
    /\ authStyle = FALSE
    /\ pending = NoPending
    /\ inflight = NoInflight
    /\ clock = 0
    /\ devToken = NoDevToken
    /\ isExpiredOut = NoIsExpired
    /\ storefront = DefaultStorefront
    /\ defaultStorefront = DefaultStorefront
    /\ searchOut = NoSearch
    /\ song = NoSong
    /\ previewOut = NoPreview
    /\ authURL = NoAuthURL
    /\ codeOut = NoExchange
    /\ userTokenOut = NoUserToken
    /\ gor = [ g \in Goroutines |-> IdleGoroutine ]
    /\ fatal = FALSE
    /\ endpointLog = <<>>

\* The developer token: no token made yet, the clock at some instant.
InitDeveloperToken ==
    /\ err = NilError
    /\ errOut = NoCall
    /\ sdk = NoSdk
    /\ cl = ClientNewClient(<<>>)
    /\ req = NoRequest
    /\ doOut = NoDo
    /\ wrapOut = NoWrap
    /\ tokens = EmptyMap
    /\ lastSaved = EmptyMap
    /\ now = 1
    /\ last = NoOp
    /\ authStyle = FALSE
    /\ pending = NoPending
    /\ inflight = NoInflight
    /\ clock \in 0..(TicksPerSecond - 1)
    /\ devToken = NoDevToken
    /\ isExpiredOut = NoIsExpired
    /\ storefront = DefaultStorefront
    /\ defaultStorefront = DefaultStorefront
    /\ searchOut = NoSearch
    /\ song = NoSong
    /\ previewOut = NoPreview
    /\ authURL = NoAuthURL
    /\ codeOut = NoExchange
    /\ userTokenOut = NoUserToken
    /\ gor = [ g \in Goroutines |-> IdleGoroutine ]
    /\ fatal = FALSE
    /\ endpointLog = <<>>

\* No song looked at yet.
InitSong ==
    /\ err = NilError
    /\ errOut = NoCall
    /\ sdk = NoSdk
    /\ cl = ClientNewClient(<<>>)
    /\ req = NoRequest
    /\ doOut = NoDo
    /\ wrapOut = NoWrap
    /\ tokens = EmptyMap
    /\ lastSaved = EmptyMap
    /\ now = 1
    /\ last = NoOp
    /\ authStyle = FALSE
    /\ pending = NoPending
    /\ inflight = NoInflight
    /\ clock = 0
    /\ devToken = NoDevToken
    /\ isExpiredOut = NoIsExpired
    /\ storefront = DefaultStorefront
    /\ defaultStorefront = DefaultStorefront
    /\ searchOut = NoSearch
    /\ song = NoSong
    /\ previewOut = NoPreview
    /\ authURL = NoAuthURL
    /\ codeOut = NoExchange
    /\ userTokenOut = NoUserToken
    /\ gor = [ g \in Goroutines |-> IdleGoroutine ]
    /\ fatal = FALSE
    /\ endpointLog = <<>>

\* The search service as NewSearchService returns it.
InitSearch ==
    /\ err = NilError
    /\ errOut = NoCall
    /\ sdk = NoSdk
    /\ cl = ClientNewClient(<<>>)
    /\ req = NoRequest
    /\ doOut = NoDo
    /\ wrapOut = NoWrap
    /\ tokens = EmptyMap
    /\ lastSaved = EmptyMap
    /\ now = 1
    /\ last = NoOp
    /\ authStyle = FALSE
    /\ pending = NoPending
    /\ inflight = NoInflight
    /\ clock = 0
    /\ devToken = NoDevToken
    /\ isExpiredOut = NoIsExpired
    /\ storefront = DefaultStorefront
    /\ defaultStorefront = DefaultStorefront
    /\ searchOut = NoSearch
    /\ song = NoSong
    /\ previewOut = NoPreview
    /\ authURL = NoAuthURL
    /\ codeOut = NoExchange
    /\ userTokenOut = NoUserToken
    /\ gor = [ g \in Goroutines |-> IdleGoroutine ]
    /\ fatal = FALSE
    /\ endpointLog = <<>>

SpecLogging == InitClient /\ [][NextLogging]_vars
SpecSong == InitSong /\ [][NextSong]_vars
SpecSearch == InitSearch /\ [][NextSearch]_vars
SpecDeveloperToken == InitDeveloperToken /\ [][NextDeveloperToken]_vars
SpecErrors == InitErrors /\ [][NextErrors]_vars
SpecClient == InitClient /\ [][NextClient]_vars
SpecAuth   == InitAuth /\ [][NextAuth]_vars

SpecManager == InitAuth /\ [][NextManager]_vars

SpecConcurrent == InitAuth /\ [][NextConcurrent]_vars

----------------------------------------------------------------------------
(* Claims about package errors (checked under SpecErrors)                  *)

\* The error handed to the errors package is a non-nil *APIError of status s.
IsAPIErrorWithStatus(s) ==
    err.dyn = "APIError" /\ ~err.isNilPtr /\ err.api.StatusCode = s

\* C1: for an APIError with status code 429, GetType returns RateLimit and
\* IsRateLimitError returns true, although 429 lies in 400..499.
C1_RateLimit429 ==
    IsAPIErrorWithStatus(429) =>
        /\ errOut.op = "GetType" => errOut.out = Returned(ErrorTypeRateLimit)
        /\ errOut.op = "IsRateLimitError" => errOut.out = Returned(TRUE)

\* C10: for an APIError with status code 401 or 403, GetType returns
\* Authentication.
C10_Authentication401403 ==
    ((IsAPIErrorWithStatus(401) \/ IsAPIErrorWithStatus(403)) /\ errOut.op = "GetType")
        => errOut.out = Returned(ErrorTypeAuthentication)

C10_Witness ==
    /\ IsAPIErrorWithStatus(403)
    /\ errOut.op = "GetType"
    /\ errOut.out = Returned(ErrorTypeAuthentication)

\* C11: for every status code in 400..499 other than 401, 403 and 429,
\* GetType returns InvalidRequest.
C11_InvalidRequestOther4xx ==
    \A s \in (400..499) \ {401, 403, 429} :
        (IsAPIErrorWithStatus(s) /\ errOut.op = "GetType")
            => errOut.out = Returned(ErrorTypeInvalidRequest)

C11_Witness ==
    /\ IsAPIErrorWithStatus(400)
    /\ errOut.op = "GetType"
    /\ errOut.out = Returned(ErrorTypeInvalidRequest)

\* C12: for every status code in 500..599, GetType returns Server.
C12_Server5xx ==
    \A s \in 500..599 :
        (IsAPIErrorWithStatus(s) /\ errOut.op = "GetType")
            => errOut.out = Returned(ErrorTypeServer)

C12_Witness ==
    /\ IsAPIErrorWithStatus(500)
    /\ errOut.op = "GetType"
    /\ errOut.out = Returned(ErrorTypeServer)

\* C13: for every status code outside 400..599 (2xx, 3xx, zero or negative
\* codes, codes of 600 and above), GetType returns Unknown.
C13_UnknownOutside4xx5xx ==
    \A s \in StatusCodes \ (400..599) :
        (IsAPIErrorWithStatus(s) /\ errOut.op = "GetType")
            => errOut.out = Returned(ErrorTypeUnknown)

\* The type-check predicates and the kind each one tests for.
PredicateKind ==
    [ IsAuthenticationError |-> ErrorTypeAuthentication,
      IsInvalidRequestError |-> ErrorTypeInvalidRequest,
      IsRateLimitError      |-> ErrorTypeRateLimit,
      IsServerError         |-> ErrorTypeServer ]

\* err is a non-nil *APIError whose GetType is kind.
IsAPIErrorOfKind(kind) ==
    err.dyn = "APIError" /\ ~err.isNilPtr /\ GetType(err.api) = kind

\* C14: each type-check predicate returns false and never panics for every
\* error value that is not an APIError of its kind: a nil error, an error
\* that is not an APIError, an error wrapping an APIError, a nil *APIError
\* pointer held in an error value.
C14_PredicatesNeverFail ==
    \A p \in DOMAIN PredicateKind :
        (errOut.op = p /\ ~IsAPIErrorOfKind(PredicateKind[p]))
            => errOut.out = Returned(FALSE)

\* C15: the message of an APIError with sub-errors is exactly the
\* "<title>: <detail>" entries joined with "; "; with no sub-errors it is
\* "API error (status code: N)".
C15_MessageFormat ==
    (errOut.op = "Error" /\ err.dyn = "APIError" /\ ~err.isNilPtr) =>
        errOut.out.value =
            IF Len(err.api.Errors) = 0
            THEN <<"API error (status code: ", ToString(err.api.StatusCode), ")">>
            ELSE JoinMessages(err.api.Errors)

----------------------------------------------------------------------------
(* Claims about the transport (checked under SpecClient)                   *)

Bearer(t) == <<"Bearer ">> \o t

\* C2: in every request NewRequest builds, whatever static headers the
\* caller supplied, Authorization is "Bearer <developerToken>" and the
\* user-token header is the configured user token, when those tokens are
\* configured.
C2_StaticHeadersCannotOverrideAuth ==
    req.state = "built" =>
        /\ cl.developerToken # EmptyString
               => HeaderGet(req.header, "Authorization") = Bearer(cl.developerToken)
        /\ cl.userToken # EmptyString
               => HeaderGet(req.header, "Music-User-Token") = cl.userToken

\* C3: after musickitkat.NewClient(WithDeveloperToken(t), WithUserToken(u)),
\* every request issued through the services carries Authorization:
\* Bearer t and the user-token header u.
C3_SdkTokensReachTransport ==
    (sdk.built /\ req.state = "built") =>
        /\ sdk.DeveloperToken # EmptyString
               => HeaderGet(req.header, "Authorization") = Bearer(sdk.DeveloperToken)
        /\ sdk.UserToken # EmptyString
               => HeaderGet(req.header, "Music-User-Token") = sdk.UserToken

\* C4: for every response with status s >= 400, whatever its body and the
\* request's headers, Do returns an APIError carrying s, and the type-check
\* predicate of that status holds of the error.
C4_DoReturnsAPIErrorForEveryFailure ==
    (doOut.called /\ ~doOut.response.fails /\ doOut.response.status >= 400) =>
        /\ doOut.err.dyn = "APIError"
        /\ ~doOut.err.isNilPtr
        /\ doOut.err.api.StatusCode = doOut.response.status
        /\ doOut.response.status \in { 401, 403 }
               => IsAuthenticationError(doOut.err) = Returned(TRUE)
        /\ doOut.response.status = 429
               => IsRateLimitError(doOut.err) = Returned(TRUE)
        /\ doOut.response.status \in 500..599
               => IsServerError(doOut.err) = Returned(TRUE)

\* C18: each call to Do, and so each Get, Post, Put or Delete that reaches
\* Do, makes exactly one attempt on the underlying HTTP client; a 429 or 5xx
\* answer is returned to the caller as a failure after that one attempt.
C18_SingleAttempt ==
    /\ doOut.called =>
          /\ doOut.attempts = 1
          /\ (~doOut.response.fails
                 /\ (doOut.response.status = 429 \/ doOut.response.status >= 500))
                => (~doOut.hasResp /\ doOut.err # NilError)
    /\ wrapOut.called =>
          /\ doOut.attempts = (IF req.state = "built" THEN 1 ELSE 0)
          /\ doOut.called => wrapOut.err = doOut.err \/ doOut.err = NilError

C18_Witness ==
    /\ wrapOut.called
    /\ doOut.called
    /\ doOut.response.status = 429
    /\ doOut.attempts = 1
    /\ wrapOut.err # NilError

\* The stages of error-body decoding, in the pipeline's order.
DecodeStages == << "empty", "whitespace", "nonJSON", "mismatch" >>

\* Whether a stage's own condition holds of body b, whatever the other
\* stages say: an empty body is also whitespace-only, not JSON and not
\* decodable.
StageApplies(stage, b) ==
    IF stage = "empty" THEN BodyLen(b) = 0
    ELSE IF stage = "whitespace" THEN Len(TrimSpace(b)) = 0
    ELSE IF stage = "nonJSON" THEN Len(TrimSpace(b)) = 0 \/ ~LooksLikeJSON(TrimSpace(b))
    ELSE ~UnmarshalOK(b)

\* The first stage that applies to b, "none" when the body decodes.
FirstStage(b) ==
    IF \E i \in 1..Len(DecodeStages) : StageApplies(DecodeStages[i], b)
    THEN DecodeStages[CHOOSE i \in 1..Len(DecodeStages) :
                         /\ StageApplies(DecodeStages[i], b)
                         /\ \A j \in 1..(i - 1) : ~StageApplies(DecodeStages[j], b)]
    ELSE "none"

\* The stage a diagnostic names, read off the error's message alone.
DiagnosticOf(e) ==
    IF e.dyn # "plain" \/ Len(e.msg) < 3 \/ e.msg[1] # "API error (status " THEN "none"
    ELSE IF e.msg[3] = "): empty response body" THEN "empty"
    ELSE IF e.msg[3] = "): whitespace-only response body" THEN "whitespace"
    ELSE IF e.msg[3] = "): non-JSON response: " THEN "nonJSON"
    ELSE IF e.msg[3] = "): " THEN "mismatch"
    ELSE "none"

\* Do took the response's body to parseErrorResponse, which could read it.
BodyDecoded ==
    /\ doOut.called /\ ~doOut.response.fails /\ ~doOut.response.readFails
    /\ doOut.response.status >= 400
    /\ ~(doOut.err.dyn = "plain" /\ doOut.err.msg[1] \in
           { "API authentication error (status 401): Developer token is missing or invalid. ",
             "API authentication error (status 401): Music-User-Token is required for " })

\* C19: error-body decoding is an ordered pipeline (empty, whitespace-only,
\* non-JSON, JSON that does not decode as the error shape): the first stage
\* that applies to the body, and no other, determines the diagnostic; the
\* diagnostic tells the stage, so the four are pairwise distinct; an empty
\* body with status 500 yields the empty-body diagnostic.
C19_OrderedDecodePipeline ==
    BodyDecoded =>
        /\ DiagnosticOf(doOut.err) = FirstStage(doOut.response.body)
        /\ FirstStage(doOut.response.body) = "none" <=> doOut.err.dyn = "APIError"
        /\ (doOut.response.status = 500 /\ doOut.response.body = <<>>)
              => doOut.err = PlainError(<<"API error (status ", "500", "): empty response body">>)

C19_Witness ==
    /\ BodyDecoded
    /\ doOut.response.status = 500
    /\ doOut.response.body = <<>>
    /\ DiagnosticOf(doOut.err) = "empty"

\* C25: Do returns an error and no response for every response whose status
\* is outside 200..299, the 1xx and 3xx codes that reach it included.
DoAnswered == doOut.called /\ ~doOut.panicked /\ ~doOut.response.fails

C25_Non2xxIsError ==
    (DoAnswered /\ doOut.response.status \notin 200..299) =>
        doOut.err # NilError /\ ~doOut.hasResp

\* C29: Do returns exactly one of a response and an error, whatever the
\* network call, the status and the body.
C29_ResponseXorError ==
    (doOut.called /\ ~doOut.panicked) =>
        (doOut.hasResp <=> doOut.err = NilError)

C29_Witness ==
    /\ DoAnswered
    /\ doOut.response.status = 403
    /\ doOut.response.body = <<ErrorsJSON>>
    /\ doOut.err = APIErrorValue(APIError(403, UnmarshalErrors(<<ErrorsJSON>>)))
    /\ ~doOut.hasResp

\* C30: Get, Post, Put and Delete return a nil error only when the status is
\* below 400 and the body decodes as JSON; a response with a status below
\* 400 and an empty body makes them return a decode error.
WrapperAnswered ==
    /\ wrapOut.called /\ ~wrapOut.panicked
    /\ req.state = "built"
    /\ DoAnswered

C30_NilOnlyWhenDecoded ==
    /\ (wrapOut.called /\ ~wrapOut.panicked /\ wrapOut.err = NilError) =>
           /\ WrapperAnswered
           /\ doOut.response.status < 400
           /\ ~doOut.response.readFails
           /\ UnmarshalOK(doOut.response.body)
    /\ (WrapperAnswered /\ doOut.response.status < 400
           /\ ~doOut.response.readFails /\ doOut.response.body = <<>>) =>
           wrapOut.err = PlainError(<<"failed to unmarshal response: ">>)

C30_Witness ==
    /\ WrapperAnswered
    /\ req.method = "DELETE"
    /\ doOut.response.status = 204
    /\ doOut.response.body = <<>>
    /\ doOut.hasResp
    /\ wrapOut.err = PlainError(<<"failed to unmarshal response: ">>)

----------------------------------------------------------------------------
(* Claims about the token cache and the manager (checked under SpecAuth)   *)

\* The last call was GetUserToken for a user with a cached record.
GetUserTokenOnCached ==
    last.op = "GetUserToken" /\ last.cached

\* The record the last call found in the cache.
Cached == last.found

\* The record's expiry has passed when the last call looks at it.
ExpiryPassed(t) == ~t.isNil /\ t.Expiry # 0 /\ t.Expiry < last.readAt

\* C5: GetUserToken on a cached expired record calls RefreshToken exactly
\* once and, the refresh succeeding, saves the refreshed record under that
\* userID and returns that same record, which cache.Get then yields.
C5_ExpiredRefreshedOnceAndSaved ==
    (GetUserTokenOnCached /\ ExpiryPassed(Cached)) =>
        /\ last.refreshCalls = 1
        /\ last.err = NoErr =>
               /\ last.netCalls \in { 1, 2 }
               /\ last.saveCalls = 1
               /\ last.token # Cached
               /\ last.token.AccessToken = "a2"
               /\ last.userID \in DOMAIN lastSaved
               /\ lastSaved[last.userID] = last.token
               /\ MemoryTokenCacheGet(tokens, last.userID)
                      = [ token |-> last.token, err |-> NoErr ]

C5_Witness ==
    /\ GetUserTokenOnCached
    /\ ExpiryPassed(Cached)
    /\ last.err = NoErr
    /\ last.saveCalls = 1
    /\ tokens[last.userID] = last.token

\* C6 as stated, for a cached record that holds an access token:
\* GetUserToken on a record whose expiry has not yet passed returns it
\* unchanged, with no network call, no RefreshToken call and no Save.
C6_NotExpiredReturnedUnchanged ==
    (/\ GetUserTokenOnCached
     /\ ~Cached.isNil
     /\ Cached.AccessToken # ""
     /\ ~ExpiryPassed(Cached)) =>
        /\ last.err = NoErr
        /\ last.token = Cached
        /\ last.netCalls = 0
        /\ last.refreshCalls = 0
        /\ last.saveCalls = 0
        /\ tokens = last.before

\* C6 amended: GetUserToken on a cached record that has an access token and
\* either no expiry or an expiry at least ExpiryDelta seconds ahead returns
\* it unchanged, with no network call, no RefreshToken call and no Save.
C6_ValidReturnedUnchanged ==
    (/\ GetUserTokenOnCached
     /\ ~Cached.isNil
     /\ Cached.AccessToken # ""
     /\ (Cached.Expiry = 0 \/ Cached.Expiry - ExpiryDelta >= last.readAt)) =>
        /\ last.err = NoErr
        /\ last.token = Cached
        /\ last.netCalls = 0
        /\ last.refreshCalls = 0
        /\ last.saveCalls = 0
        /\ tokens = last.before

C6_Witness ==
    /\ GetUserTokenOnCached
    /\ ~Cached.isNil
    /\ Cached.Expiry = last.readAt + ExpiryDelta
    /\ last.token = Cached
    /\ last.refreshCalls = 0

\* C7: GetUserToken for a userID with no cached record fails with the
\* not-found error, makes no network call and creates no record.
C7_NotFoundNoBootstrap ==
    (last.op = "GetUserToken" /\ ~last.cached) =>
        /\ last.err = ErrNotFound
        /\ last.token = NilToken
        /\ last.netCalls = 0
        /\ last.refreshCalls = 0
        /\ last.saveCalls = 0
        /\ tokens = last.before
        /\ last.userID \notin DOMAIN tokens

C7_Witness ==
    /\ last.op = "GetUserToken"
    /\ ~last.cached
    /\ last.userID \notin DOMAIN last.before
    /\ last.err = ErrNotFound
    /\ DOMAIN tokens # {}

\* C8: Get(userID) returns the record of the latest Save(userID, record),
\* and fails with the not-found error for a userID never saved.
C8_SaveThenGet ==
    last.op = "Get" =>
        IF last.userID \in DOMAIN lastSaved
        THEN last.err = NoErr /\ last.token = lastSaved[last.userID]
        ELSE last.err = ErrNotFound

C8_Witness ==
    /\ last.op = "Get"
    /\ last.userID \in DOMAIN lastSaved
    /\ last.err = NoErr
    /\ last.token = Token("a1", "r1", 1)

\* C9: the cache holds, per userID, the record of the most recent Save for
\* it and nothing else; Save never fails, overwrites, and leaves the
\* records of every other userID as they were.
C9_LastWriteWins ==
    /\ tokens = lastSaved
    /\ last.op = "Save" =>
           /\ last.err = NoErr
           /\ last.userID \in DOMAIN tokens
           /\ tokens[last.userID] = last.token
           /\ \A v \in UserIDs \ { last.userID } :
                  /\ v \in DOMAIN tokens <=> v \in DOMAIN last.before
                  /\ v \in DOMAIN tokens => tokens[v] = last.before[v]

C9_Witness ==
    /\ last.op = "Save"
    /\ last.userID \in DOMAIN last.before
    /\ last.before[last.userID] # last.token
    /\ tokens[last.userID] = last.token
    /\ \E v \in DOMAIN tokens : v # last.userID

\* C24: every RefreshToken call makes exactly one call to the token endpoint,
\* whatever record it is given, and returns either the new record or a
\* refresh error.
C24_RefreshAlwaysOneCall ==
    last.op = "RefreshToken" =>
        /\ last.netCalls = 1
        /\ \/ last.err = NoErr /\ ~last.token.isNil
           \/ last.err = ErrRefresh /\ last.token = NilToken

\* C27 (checked under SpecManager): on a manager built with a nil cache,
\* after any sequence of GetAuthURL, ExchangeCode, RefreshToken,
\* RequestUserToken and GetUserToken calls the cache is still empty, and
\* every GetUserToken call fails with the not-found error.
C27_NilCacheStaysEmpty ==
    /\ tokens = EmptyMap
    /\ last.op = "GetUserToken" =>
           /\ last.err = ErrNotFound
           /\ last.token = NilToken
           /\ last.netCalls = 0

C27_Witness ==
    /\ codeOut.called /\ codeOut.err = NoErr /\ ~codeOut.token.isNil
    /\ userTokenOut.called /\ userTokenOut.err = NoErr
    /\ authURL # NoAuthURL
    /\ last.op = "GetUserToken"
    /\ last.err = ErrNotFound
    /\ tokens = EmptyMap

\* C28: GetUserToken on a cached record that is no longer valid, the refresh
\* failing, returns the refresh error and does not call Save: the cache is
\* as it was before the call returned, the userID still cached.
RefreshFailed ==
    /\ GetUserTokenOnCached
    /\ ~Valid(Cached, last.readAt)
    /\ last.err # NoErr

C28_FailedRefreshLeavesCache ==
    RefreshFailed =>
        /\ last.err = ErrRefresh
        /\ last.token = NilToken
        /\ last.refreshCalls = 1
        /\ last.saveCalls = 0
        /\ tokens = last.before
        /\ last.userID \in DOMAIN tokens

\* The endpoint refuses both requests of a first refresh, a second passing
\* meanwhile; the expired record is still the cached one.
C28_Witness ==
    /\ RefreshFailed
    /\ Cached = Token("a1", "r1", 1)
    /\ last.netCalls = 2
    /\ last.at > last.readAt
    /\ last.err = ErrRefresh
    /\ tokens[last.userID] = Cached

----------------------------------------------------------------------------
(* Claims about the developer token (checked under SpecDeveloperToken)     *)

\* devToken holds a token one of the three constructors returned with a nil error.
ConstructorSucceeded ==
    /\ devToken.made
    /\ devToken.ctor \in { "NewDeveloperToken", "NewDeveloperTokenWithExpiry",
                           "NewDeveloperTokenFromConfig" }
    /\ devToken.err = NoErr

\* C16: every developer token NewDeveloperToken, NewDeveloperTokenWithExpiry
\* or NewDeveloperTokenFromConfig returns successfully has an exp claim
\* strictly greater than its iat claim, whatever expiry the caller passes.
C16_ExpAfterIat ==
    ConstructorSucceeded => devToken.token.exp > devToken.token.iat

\* devToken was issued with expiry = now + 10s.
TenSecondToken ==
    ConstructorSucceeded /\ devToken.expiresAt = devToken.madeAt + Seconds(10)

\* C17: IsExpired is true exactly when the current Unix second is strictly
\* greater than the exp claim, so once it has returned true it returns true
\* at every later call; for a token issued with expiry = now + 10s it is
\* false while the clock has not passed the expiry and true once the clock's
\* second is past the expiry's.
C17_IsExpiredAfterExp ==
    (ConstructorSucceeded /\ isExpiredOut.called) =>
        /\ isExpiredOut.err = NoErr
        /\ isExpiredOut.expired <=> Unix(isExpiredOut.at) > devToken.token.exp
        /\ isExpiredOut.before => isExpiredOut.expired
        /\ TenSecondToken =>
              /\ isExpiredOut.at <= devToken.expiresAt => ~isExpiredOut.expired
              /\ Unix(isExpiredOut.at) > Unix(devToken.expiresAt) => isExpiredOut.expired

C17_Witness ==
    /\ TenSecondToken
    /\ isExpiredOut.called
    /\ isExpiredOut.before
    /\ isExpiredOut.expired
    /\ isExpiredOut.at > devToken.expiresAt

----------------------------------------------------------------------------
(* Claims about the search service (checked under SpecSearch)              *)

\* C20: a storefront given in the options of one Search call applies to that
\* search only: a later Search or SearchHints call without a storefront
\* option requests the service's default storefront (the one SetStorefront
\* set, or "us").
C20_StorefrontPerSearch ==
    (searchOut.op \in { "Search", "SearchHints" } /\ searchOut.requested
        /\ searchOut.optStorefront = "")
        => searchOut.path.segments[2] = defaultStorefront

----------------------------------------------------------------------------
(* Claims about a song's preview URL (checked under SpecSong)              *)

\* The song the last call looked at has a preview marked playable.
HasPlayablePreview == \E i \in 1..Len(song.Previews) : song.Previews[i].Playable

\* C21: GetPreviewURL returns the URL of the first preview marked playable,
\* and the empty string whenever the song has no playable preview.
C21_FirstPlayablePreview ==
    previewOut.op = "GetPreviewURL" =>
        /\ HasPlayablePreview =>
              \E i \in 1..Len(song.Previews) :
                  /\ song.Previews[i].Playable
                  /\ \A j \in 1..(i - 1) : ~song.Previews[j].Playable
                  /\ previewOut.url = song.Previews[i].URL
        /\ ~HasPlayablePreview => previewOut.url = ""

----------------------------------------------------------------------------
(* Claims about the transport's logging (checked under SpecLogging)        *)

\* The client with its logging as NewClient() sets it up.
LoggingDisabled(c) == [ c EXCEPT !.logger = "discard", !.logLevel = LogLevelNone ]

\* C22: diagnostic logging never raises and never changes an operation's
\* outcome: for every log level and every logger, nil included, NewRequest,
\* Do and Get/Post/Put/Delete do not panic, and Do returns what it returns
\* with logging disabled.
C22_LoggingNeverRaises ==
    /\ req.state # "panicked"
    /\ ~doOut.panicked
    /\ ~wrapOut.panicked
    /\ (doOut.called /\ req.state = "built")
          => doOut = Do(LoggingDisabled(cl), req, doOut.response)

----------------------------------------------------------------------------
(* Claims about concurrent callers (checked under SpecConcurrent)          *)

\* C23: the in-memory cache performs no locking: while one goroutine is
\* inside Save's map assignment, another is not kept from entering Get or
\* Save on the same cache, so that calls overlap and a saved record is
\* overwritten or not observed.
C23_NoLocking ==
    \A g \in Goroutines, h \in Goroutines :
        (/\ g # h /\ ~fatal
         /\ gor[h].pc = "writing"
         /\ gor[g].pc = "idle" /\ CallsMade(gor) < MaxCalls) =>
            ENABLED GoGet(g) /\ ENABLED GoSave(g)

\* Two Saves of different records under one userID overlapped; both
\* returned nil and the cache holds only the second to complete.
C23_Witness ==
    /\ ~fatal
    /\ gor[1].out.op = "Save" /\ gor[2].out.op = "Save"
    /\ gor[1].out.userID = gor[2].out.userID
    /\ gor[1].out.token # gor[2].out.token
    /\ gor[2].out.raced
    /\ gor[1].out.err = NoErr /\ gor[2].out.err = NoErr
    /\ tokens[gor[1].out.userID] = gor[1].out.token

\* C26: every GetUserToken call that finds a cached record that is no
\* longer valid performs its own refresh, also when another call for the
\* same userID is refreshing the same record, so the endpoint is sent the
\* same refresh token once per call; the cache holds the record of
\* whichever Save completed last.
RefreshedOwn(o) ==
    (/\ o.op = "GetUserToken"
     /\ o.err # ErrNotFound
     /\ ~Valid(o.observed, now)
     /\ o.observed.RefreshToken # "") => o.netCalls \in { 1, 2 }

C26_RefreshNotSingleFlight ==
    /\ \A g \in Goroutines : RefreshedOwn(gor[g].out)
    /\ tokens = lastSaved

C26_Witness ==
    /\ ~fatal
    /\ gor[1].out.op = "GetUserToken" /\ gor[2].out.op = "GetUserToken"
    /\ gor[1].out.userID = gor[2].out.userID
    /\ gor[1].out.observed = Token("a1", "r1", 1)
    /\ gor[2].out.observed = Token("a1", "r1", 1)
    /\ gor[1].out.err = NoErr /\ gor[2].out.err = NoErr
    /\ gor[1].out.token # gor[2].out.token
    /\ endpointLog = << "r1", "r1" >>
    /\ tokens[gor[1].out.userID] = gor[2].out.token

============================================================================
